---- MODULE Spec2Model ----
(***************************************************************************)
(* Phased asset-generation pipeline of ai-video-gen: the record store      *)
(* (scenes, assets, shot_lists, projects), the generate route, the         *)
(* confirm / reset route and the client-side phase resolver.               *)
(***************************************************************************)
EXTENDS Integers, Sequences, FiniteSets, Bags, TLC

(* ---------------------------------------------------------------------- *)
(* Bounds                                                                  *)
(* ---------------------------------------------------------------------- *)
MaxScenes == 3
MaxTime == 1
ResolverMaxScenes == 2
PurityMaxScenes == 1
StyleMaxScenes == 2
BatchMaxScenes == 3
StepMaxScenes == 2
RaceMaxScenes == 3
MaxCallers == 3
MaxClips == 2
MaxEngines == 2
MaxDuration == 6
DurationClips == 3

(* ---------------------------------------------------------------------- *)
(* Program constants                                                       *)
(* ---------------------------------------------------------------------- *)
MAX_RETRIES == 3
RETRY_DELAY_MS == 2000
POLL_INTERVAL_MS == 5000
MAX_POLL_ATTEMPTS == 120
LastStep == 6

VARIABLES scenes, assets, shotLists, project, last, caller, retry, asm

vars == <<scenes, assets, shotLists, project, last, caller, retry, asm>>
store == <<scenes, assets, shotLists, project>>
\* the record store and the response in flight
pipeline == <<scenes, assets, shotLists, project, last>>
\* what a request's caller supplied, as the specifications that observe it record it;
\* the run of retryWithBackoff and the assembly run in the browser
beside == <<caller, retry, asm>>

\* nothing observed, no retry run, no assembly run
NotObserved == [kind |-> "none"]
NoRetry == [pc |-> "none"]
NoAssembly == [pc |-> "none"]
BesideIdle == caller = NotObserved /\ retry = NoRetry /\ asm = NoAssembly

(* ---------------------------------------------------------------------- *)
(* Values                                                                  *)
(* ---------------------------------------------------------------------- *)
\* SQL NULL of a timestamp column; confirmation times are 1..MaxTime
NullTime == 0
\* SQL NULL of the text column video_style / an absent request field
NullText == "<null>"
\* an absent optional sceneId, and a well-formed uuid that names no scene
NoSceneId == 0
UnknownSceneId == 999

SceneId(i) == 100 + i
Times == 1..MaxTime
\* a null fetch result; fetched image bytes are named by the scene they belong to
NoBytes == 0

\* JavaScript truthiness of string | null | undefined
Truthy(s) == s # NullText /\ s # ""
\* String.prototype.trim on the request strings the model draws
Trim(s) ==
  CASE s = " " -> ""
    [] s = " pan " -> "pan"
    [] OTHER -> s
\* 2^n
RECURSIVE Pow2(_)
Pow2(n) == IF n = 0 THEN 1 ELSE 2 * Pow2(n - 1)

(* ---------------------------------------------------------------------- *)
(* Record-store helpers                                                    *)
(* ---------------------------------------------------------------------- *)
RECURSIVE SortByOrder(_)
\* .order('order_index'): the rows as a sequence in ascending order_index
SortByOrder(S) ==
  IF S = {} THEN <<>>
  ELSE LET m == CHOOSE s \in S : \A t \in S : s.order_index <= t.order_index
       IN <<m>> \o SortByOrder(S \ {m})

\* scenes.map(s => s.order_index)
OrderIndices(sq) == [k \in 1..Len(sq) |-> sq[k].order_index]

\* scenes.update({status}).eq('id', id)
UpdateStatus(scs, id, st) ==
  {IF s.id = id THEN [s EXCEPT !.status = st] ELSE s : s \in scs}

\* scenes.update({status}).in('id', ids)
UpdateStatusIn(scs, ids, st) ==
  {IF s.id \in ids THEN [s EXCEPT !.status = st] ELSE s : s \in scs}

\* the assets table is a bag of rows
\* a plain insert: the unique (scene_id, type) constraint is not used
Upsert_Insert(as, row) == as (+) SetToBag({row})

\* assets.upsert(row, {onConflict: 'scene_id,type', ignoreDuplicates: false})
Upsert(as, row) ==
  LET kept == {a \in BagToSet(as) : ~(a.scene_id = row.scene_id /\ a.type = row.type)}
  IN [a \in kept \cup {row} |-> IF a = row THEN 1 ELSE as[a]]

\* assets.delete().in('scene_id', ids).eq('type', type)
DeleteAssets(as, ids, type) ==
  LET kept == {a \in BagToSet(as) : ~(a.scene_id \in ids /\ a.type = type)}
  IN [a \in kept |-> as[a]]

\* assets?.some(a => a.scene_id === id && a.type === type && a.status === 'complete')
HasComplete(as, id, type) ==
  \E a \in BagToSet(as) : a.scene_id = id /\ a.type = type /\ a.status = "complete"

(* ---------------------------------------------------------------------- *)
(* PhaseResolver                                                           *)
(* ---------------------------------------------------------------------- *)
\* the resolver of the implementation plan, without the current_step rule
deriveCurrentPhase_NoStepRule(scs, as, shotList, projectCurrentStep) ==
  IF shotList = {} \/ scs = {} THEN "phase_a"
  ELSE LET sl == CHOOSE r \in shotList : TRUE
           scene1s == {s \in scs : s.order_index = 1}
       IN IF scene1s = {} THEN "phase_a"
          ELSE LET scene1 == CHOOSE s \in scene1s : TRUE
               IN IF ~HasComplete(as, scene1.id, "image") \/ sl.first_image_confirmed_at = NullTime
                  THEN "phase_a"
                  ELSE IF (\E s \in scs : ~HasComplete(as, s.id, "image"))
                          \/ sl.all_images_confirmed_at = NullTime
                  THEN "phase_b"
                  ELSE IF ~HasComplete(as, scene1.id, "video") \/ sl.first_video_confirmed_at = NullTime
                  THEN "phase_c"
                  ELSE IF \E s \in scs : ~HasComplete(as, s.id, "video") THEN "phase_d"
                  ELSE "complete"

\* shotList is the set of shot_lists rows of the project: {} is null
deriveCurrentPhase(scs, as, shotList, projectCurrentStep) ==
  IF shotList = {} \/ scs = {} THEN "phase_a"
  ELSE LET sl == CHOOSE r \in shotList : TRUE
           scene1s == {s \in scs : s.order_index = 1}
       IN IF scene1s = {} THEN "phase_a"
          ELSE LET scene1 == CHOOSE s \in scene1s : TRUE
                   scene1Image == HasComplete(as, scene1.id, "image")
                   scene1Video == HasComplete(as, scene1.id, "video")
                   allImagesComplete == \A s \in scs : HasComplete(as, s.id, "image")
                   allVideosComplete == \A s \in scs : HasComplete(as, s.id, "video")
               IN IF ~scene1Image \/ sl.first_image_confirmed_at = NullTime THEN "phase_a"
                  ELSE IF ~allImagesComplete \/ sl.all_images_confirmed_at = NullTime THEN "phase_b"
                  ELSE IF ~scene1Video \/ sl.first_video_confirmed_at = NullTime THEN "phase_c"
                  ELSE IF ~allVideosComplete \/ projectCurrentStep < 5 THEN "phase_d"
                  ELSE "complete"

(* ---------------------------------------------------------------------- *)
(* Responses                                                               *)
(* ---------------------------------------------------------------------- *)
\* what the most recent request was and what it returned
Response(op, phase, sceneId, status, error, results, incompleteScenes, calls) ==
  [op |-> op, phase |-> phase, sceneId |-> sceneId, status |-> status,
   error |-> error, results |-> results,
   incompleteScenes |-> incompleteScenes, calls |-> calls]

NoResponse == Response("none", "none", NoSceneId, 0, "", <<>>, <<>>, <<>>)

(* ---------------------------------------------------------------------- *)
(* Initial state: a project whose shot list step has been run              *)
(* ---------------------------------------------------------------------- *)
NewShotList ==
  [first_image_confirmed_at |-> NullTime, all_images_confirmed_at |-> NullTime,
   first_video_confirmed_at |-> NullTime, video_style |-> NullText]

NewScene(i) == [id |-> SceneId(i), order_index |-> i, status |-> "pending"]

\* order_index sets a shot list can hold: 1..n as inserted, none, or
\* 2..n after Scene 1 was deleted on the shot-list page
InitIndexSets ==
  {1..n : n \in 0..MaxScenes} \cup {2..MaxScenes}

Init ==
  /\ \E hasShotList \in BOOLEAN : \E idx \in InitIndexSets :
       /\ shotLists = IF hasShotList THEN {NewShotList} ELSE {}
       /\ (~hasShotList => idx = {})
       /\ scenes = {NewScene(i) : i \in idx}
  /\ assets = EmptyBag
  /\ project = [current_step |-> 4]
  /\ last = NoResponse
  /\ BesideIdle

(* ---------------------------------------------------------------------- *)
(* ConfirmationGate: POST /api/generate/visuals/confirm                    *)
(* ---------------------------------------------------------------------- *)
ConfirmReply(phase, status, error, incompleteScenes) ==
  Response("confirm", phase, NoSceneId, status, error, <<>>, incompleteScenes, <<>>)

\* outcome of a handler: the tables it leaves and the response it returns
Outcome(scs, as, sls, proj, resp) ==
  [scenes |-> scs, assets |-> as, shotLists |-> sls,
   project |-> proj, resp |-> resp]

\* the incomplete list taken in descending order_index
IncompleteScenes_Descending(scs, as, type) ==
  LET ordered == SortByOrder(scs)
      Missing(s) == ~HasComplete(as, s.id, type)
      asc == OrderIndices(SelectSeq(ordered, Missing))
  IN [k \in 1..Len(asc) |-> asc[Len(asc) + 1 - k]]

\* scenes.filter(scene => !assets?.some(... type, 'complete')).map(s => s.order_index)
IncompleteScenes(scs, as, type) ==
  LET ordered == SortByOrder(scs)
      Missing(s) == ~HasComplete(as, s.id, type)
  IN OrderIndices(SelectSeq(ordered, Missing))

\* shot_lists.update(fields).eq('id', shotList.id)
UpdateShotList(sls, sl, new) == (sls \ {sl}) \cup {new}

ConfirmFirstImage(scs, as, sls, proj, now) ==
  LET sl == CHOOSE r \in sls : TRUE
      firstScenes == {s \in scs : s.order_index = 1}
      Unchanged(status, error) ==
        Outcome(scs, as, sls, proj, ConfirmReply("first_image", status, error, <<>>))
  IN IF firstScenes = {} THEN Unchanged(400, "First scene not found")
     ELSE LET firstScene == CHOOSE s \in firstScenes : TRUE
          IN IF ~HasComplete(as, firstScene.id, "image")
             THEN Unchanged(400, "First image is not complete")
             ELSE Outcome(scs, as,
                    UpdateShotList(sls, sl, [sl EXCEPT !.first_image_confirmed_at = now]),
                    proj, ConfirmReply("first_image", 200, "", <<>>))

\* all_images validating only that some scene has a complete image
ConfirmAllImages_SomeComplete(scs, as, sls, proj, now) ==
  LET sl == CHOOSE r \in sls : TRUE
      allImagesComplete == \E s \in scs : HasComplete(as, s.id, "image")
  IN IF ~allImagesComplete
     THEN Outcome(scs, as, sls, proj,
            ConfirmReply("all_images", 400, "Not all images are complete",
                         IncompleteScenes(scs, as, "image")))
     ELSE Outcome(scs, as,
            UpdateShotList(sls, sl, [sl EXCEPT !.all_images_confirmed_at = now]),
            proj, ConfirmReply("all_images", 200, "", <<>>))

ConfirmAllImages(scs, as, sls, proj, now) ==
  LET sl == CHOOSE r \in sls : TRUE
      allImagesComplete == \A s \in scs : HasComplete(as, s.id, "image")
  IN IF ~allImagesComplete
     THEN Outcome(scs, as, sls, proj,
            ConfirmReply("all_images", 400, "Not all images are complete",
                         IncompleteScenes(scs, as, "image")))
     ELSE Outcome(scs, as,
            UpdateShotList(sls, sl, [sl EXCEPT !.all_images_confirmed_at = now]),
            proj, ConfirmReply("all_images", 200, "", <<>>))

\* first_video storing the style as supplied, untrimmed
ConfirmFirstVideo_StoreRaw(scs, as, sls, proj, now, videoStyle) ==
  LET sl == CHOOSE r \in sls : TRUE
      firstScenes == {s \in scs : s.order_index = 1}
  IN IF ~Truthy(videoStyle) \/ Trim(videoStyle) = ""
     THEN Outcome(scs, as, sls, proj,
                  ConfirmReply("first_video", 400, "videoStyle is required", <<>>))
     ELSE IF firstScenes = {} \/ ~HasComplete(as, (CHOOSE s \in firstScenes : TRUE).id, "video")
     THEN Outcome(scs, as, sls, proj,
                  ConfirmReply("first_video", 400, "First video is not complete", <<>>))
     ELSE Outcome(scs, as,
            UpdateShotList(sls, sl,
              [sl EXCEPT !.first_video_confirmed_at = now,
                         !.video_style = videoStyle]),
            proj, ConfirmReply("first_video", 200, "", <<>>))

\* first_video storing the style before it validates the first video
ConfirmFirstVideo_WriteThenValidate(scs, as, sls, proj, now, videoStyle) ==
  LET sl == CHOOSE r \in sls : TRUE
      firstScenes == {s \in scs : s.order_index = 1}
      styled == UpdateShotList(sls, sl, [sl EXCEPT !.video_style = Trim(videoStyle)])
  IN IF ~Truthy(videoStyle) \/ Trim(videoStyle) = ""
     THEN Outcome(scs, as, sls, proj,
                  ConfirmReply("first_video", 400, "videoStyle is required", <<>>))
     ELSE IF firstScenes = {} \/ ~HasComplete(as, (CHOOSE s \in firstScenes : TRUE).id, "video")
     THEN Outcome(scs, as, styled, proj,
                  ConfirmReply("first_video", 400, "First video is not complete", <<>>))
     ELSE Outcome(scs, as,
            UpdateShotList(sls, sl,
              [sl EXCEPT !.first_video_confirmed_at = now,
                         !.video_style = Trim(videoStyle)]),
            proj, ConfirmReply("first_video", 200, "", <<>>))

ConfirmFirstVideo(scs, as, sls, proj, now, videoStyle) ==
  LET sl == CHOOSE r \in sls : TRUE
      firstScenes == {s \in scs : s.order_index = 1}
      Unchanged(status, error) ==
        Outcome(scs, as, sls, proj, ConfirmReply("first_video", status, error, <<>>))
  IN IF ~Truthy(videoStyle) \/ Trim(videoStyle) = ""
     THEN Unchanged(400, "videoStyle is required")
     ELSE IF firstScenes = {} THEN Unchanged(400, "First scene not found")
     ELSE LET firstScene == CHOOSE s \in firstScenes : TRUE
          IN IF ~HasComplete(as, firstScene.id, "video")
             THEN Unchanged(400, "First video is not complete")
             ELSE Outcome(scs, as,
                    UpdateShotList(sls, sl,
                      [sl EXCEPT !.first_video_confirmed_at = now,
                                 !.video_style = Trim(videoStyle)]),
                    proj, ConfirmReply("first_video", 200, "", <<>>))

\* all_videos validating Scene 1's video only
ConfirmAllVideos_FirstOnly(scs, as, sls, proj) ==
  LET allVideosComplete ==
        \A s \in {t \in scs : t.order_index = 1} : HasComplete(as, s.id, "video")
  IN IF ~allVideosComplete
     THEN Outcome(scs, as, sls, proj,
            ConfirmReply("all_videos", 400, "Not all videos are complete",
                         IncompleteScenes(scs, as, "video")))
     ELSE Outcome(scs, as, sls, [proj EXCEPT !.current_step = 5],
            ConfirmReply("all_videos", 200, "", <<>>))

ConfirmAllVideos(scs, as, sls, proj) ==
  LET allVideosComplete == \A s \in scs : HasComplete(as, s.id, "video")
  IN IF ~allVideosComplete
     THEN Outcome(scs, as, sls, proj,
            ConfirmReply("all_videos", 400, "Not all videos are complete",
                         IncompleteScenes(scs, as, "video")))
     ELSE Outcome(scs, as, sls, [proj EXCEPT !.current_step = 5],
            ConfirmReply("all_videos", 200, "", <<>>))

ConfirmPhases == {"first_image", "all_images", "first_video", "all_videos"}

ConfirmPOST(scs, as, sls, proj, phase, videoStyle, now) ==
  IF sls = {}
  THEN Outcome(scs, as, sls, proj, ConfirmReply(phase, 404, "Shot list not found", <<>>))
  ELSE IF scs = {}
  THEN Outcome(scs, as, sls, proj, ConfirmReply(phase, 404, "No scenes found", <<>>))
  ELSE CASE phase = "first_image" -> ConfirmFirstImage(scs, as, sls, proj, now)
         [] phase = "all_images" -> ConfirmAllImages(scs, as, sls, proj, now)
         [] phase = "first_video" -> ConfirmFirstVideo(scs, as, sls, proj, now, videoStyle)
         [] phase = "all_videos" -> ConfirmAllVideos(scs, as, sls, proj)

(* ---------------------------------------------------------------------- *)
(* ResetController: DELETE /api/generate/visuals/confirm                   *)
(* ---------------------------------------------------------------------- *)
ResetReply(resetTo, status, error) ==
  Response("reset", resetTo, NoSceneId, status, error, <<>>, <<>>, <<>>)

\* the reset deleting the videos of the cleared scenes only
ResetToFirstImage_KeepFirstVideo(scs, as, sls, proj) ==
  LET sl == CHOOSE r \in sls : TRUE
      scenesToClear == {s.id : s \in {t \in scs : t.order_index > 1}}
      as1 == IF scenesToClear # {} THEN DeleteAssets(as, scenesToClear, "image") ELSE as
      scs1 == IF scenesToClear # {} THEN UpdateStatusIn(scs, scenesToClear, "pending") ELSE scs
      sls1 == UpdateShotList(sls, sl,
                [sl EXCEPT !.first_image_confirmed_at = NullTime,
                           !.all_images_confirmed_at = NullTime,
                           !.first_video_confirmed_at = NullTime,
                           !.video_style = NullText])
      as2 == DeleteAssets(as1, scenesToClear, "video")
  IN Outcome(scs1, as2, sls1, proj, ResetReply("first_image", 200, ""))

ResetToFirstImage(scs, as, sls, proj) ==
  LET sl == CHOOSE r \in sls : TRUE
      scenesToClear == {s.id : s \in {t \in scs : t.order_index > 1}}
      as1 == IF scenesToClear # {} THEN DeleteAssets(as, scenesToClear, "image") ELSE as
      scs1 == IF scenesToClear # {} THEN UpdateStatusIn(scs, scenesToClear, "pending") ELSE scs
      sls1 == UpdateShotList(sls, sl,
                [sl EXCEPT !.first_image_confirmed_at = NullTime,
                           !.all_images_confirmed_at = NullTime,
                           !.first_video_confirmed_at = NullTime,
                           !.video_style = NullText])
      as2 == DeleteAssets(as1, {s.id : s \in scs}, "video")
  IN Outcome(scs1, as2, sls1, proj, ResetReply("first_image", 200, ""))

\* the reset clearing all_images_confirmed_at as well
ResetToFirstVideo_ClearAllImages(scs, as, sls, proj) ==
  LET sl == CHOOSE r \in sls : TRUE
      sls1 == UpdateShotList(sls, sl,
                [sl EXCEPT !.all_images_confirmed_at = NullTime,
                           !.first_video_confirmed_at = NullTime,
                           !.video_style = NullText])
      as1 == DeleteAssets(as, {s.id : s \in scs}, "video")
      scs1 == UpdateStatusIn(scs, {s.id : s \in scs}, "image_complete")
  IN Outcome(scs1, as1, sls1, proj, ResetReply("first_video", 200, ""))

\* the reset clearing the style but not first_video_confirmed_at
ResetToFirstVideo_KeepConfirmation(scs, as, sls, proj) ==
  LET sl == CHOOSE r \in sls : TRUE
      sls1 == UpdateShotList(sls, sl, [sl EXCEPT !.video_style = NullText])
      as1 == DeleteAssets(as, {s.id : s \in scs}, "video")
      scs1 == UpdateStatusIn(scs, {s.id : s \in scs}, "image_complete")
  IN Outcome(scs1, as1, sls1, proj, ResetReply("first_video", 200, ""))

ResetToFirstVideo(scs, as, sls, proj) ==
  LET sl == CHOOSE r \in sls : TRUE
      sls1 == UpdateShotList(sls, sl,
                [sl EXCEPT !.first_video_confirmed_at = NullTime,
                           !.video_style = NullText])
      as1 == DeleteAssets(as, {s.id : s \in scs}, "video")
      scs1 == UpdateStatusIn(scs, {s.id : s \in scs}, "image_complete")
  IN Outcome(scs1, as1, sls1, proj, ResetReply("first_video", 200, ""))

ResetTargets == {"first_image", "first_video", "other"}

ResetDELETE(scs, as, sls, proj, resetTo) ==
  IF sls = {}
  THEN Outcome(scs, as, sls, proj, ResetReply(resetTo, 404, "Shot list not found"))
  ELSE IF scs = {}
  THEN Outcome(scs, as, sls, proj, ResetReply(resetTo, 404, "No scenes found"))
  ELSE IF resetTo = "first_image" THEN ResetToFirstImage(scs, as, sls, proj)
  ELSE IF resetTo = "first_video" THEN ResetToFirstVideo(scs, as, sls, proj)
  ELSE Outcome(scs, as, sls, proj, ResetReply(resetTo, 400, "Invalid resetTo parameter"))

(* ---------------------------------------------------------------------- *)
(* RetryPolicy and generation backends                                     *)
(* ---------------------------------------------------------------------- *)
\* what one invocation of fn does: throw an error, or return {success, data?}
ThrownError(e) == [threw |-> TRUE, success |-> FALSE, hasData |-> FALSE, error |-> e]
Thrown == ThrownError("sdk")
Returned(success, hasData) == [threw |-> FALSE, success |-> success, hasData |-> hasData]

\* let lastError: Error | undefined
NoError == ThrownError("undefined")

RECURSIVE RetryLoop_WaitAfterLast(_, _, _, _, _, _)
\* the loop sleeping after every failed attempt, the last one included
RetryLoop_WaitAfterLast(fn, retries, attempt, calls, waits, lastError) ==
  IF attempt < retries
  THEN LET r == fn[attempt + 1]
       IN IF ~r.threw
          THEN [threw |-> FALSE, value |-> r, calls |-> calls + 1, waits |-> waits]
          ELSE RetryLoop_WaitAfterLast(fn, retries, attempt + 1, calls + 1,
                 Append(waits, RETRY_DELAY_MS * Pow2(attempt)), r)
  ELSE [threw |-> TRUE, value |-> lastError, calls |-> calls, waits |-> waits]

RECURSIVE RetryLoop(_, _, _, _, _, _)
\* the for loop of retryWithBackoff; fn[k] is what the k-th invocation of fn does
RetryLoop(fn, retries, attempt, calls, waits, lastError) ==
  IF attempt < retries
  THEN LET r == fn[attempt + 1]
       IN IF ~r.threw
          THEN [threw |-> FALSE, value |-> r, calls |-> calls + 1, waits |-> waits]
          ELSE RetryLoop(fn, retries, attempt + 1, calls + 1,
                 IF attempt < retries - 1
                 THEN Append(waits, RETRY_DELAY_MS * Pow2(attempt))
                 ELSE waits,
                 r)
  ELSE [threw |-> TRUE, value |-> lastError, calls |-> calls, waits |-> waits]

retryWithBackoff(fn, retries) == RetryLoop(fn, retries, 0, 0, <<>>, NoError)

\* behaviours of the image model call inside generateImage
ImageBackend == {"ok", "no_image", "sdk_throw"}

\* generateImage letting the SDK's exception escape
generateImage_Rethrow(behaviour) ==
  CASE behaviour = "ok" -> Returned(TRUE, TRUE)
    [] behaviour = "no_image" -> Returned(FALSE, FALSE)
    [] behaviour = "sdk_throw" -> Thrown

\* generateImage: every path returns a result, the catch included
generateImage(behaviour) ==
  CASE behaviour = "ok" -> Returned(TRUE, TRUE)
    [] behaviour = "no_image" -> Returned(FALSE, FALSE)
    [] behaviour = "sdk_throw" -> Returned(FALSE, FALSE)

\* behaviours of the video model call and poll loop inside generateVideo
VideoBackend == {"ok", "gen_fail", "sdk_throw"}

\* generateVideo letting the SDK's exception escape
generateVideo_Rethrow(behaviour) ==
  CASE behaviour = "ok" -> Returned(TRUE, TRUE)
    [] behaviour = "gen_fail" -> Returned(FALSE, FALSE)
    [] behaviour = "sdk_throw" -> Thrown

\* generateVideo: every path returns a result, the catch included
generateVideo(behaviour) ==
  CASE behaviour = "ok" -> Returned(TRUE, TRUE)
    [] behaviour = "gen_fail" -> Returned(FALSE, FALSE)
    [] behaviour = "sdk_throw" -> Returned(FALSE, FALSE)

\* the scene with the lowest order_index: allScenes[0], .order('order_index').limit(1)
FirstByOrder(scs) == SortByOrder(scs)[1]

\* the bytes fetched for the scene's single complete image row, or null
getSceneImageBase64(as, sceneId, fetchOk) ==
  LET rows == {a \in BagToSet(as) :
                 a.scene_id = sceneId /\ a.type = "image" /\ a.status = "complete"}
      found == [a \in rows |-> as[a]]
  IN IF BagCardinality(found) # 1 THEN NoBytes
     ELSE IF ~fetchOk THEN NoBytes
     ELSE (CHOOSE a \in rows : TRUE).scene_id

getFirstImageBase64(scs, as, fetchOk) ==
  IF scs = {} THEN NoBytes
  ELSE getSceneImageBase64(as, FirstByOrder(scs).id, fetchOk)

(* ---------------------------------------------------------------------- *)
(* GenerationOrchestrator: POST /api/generate/visuals                      *)
(* ---------------------------------------------------------------------- *)
GenerateReply(phase, sceneId, status, error, results, calls) ==
  Response("generate", phase, sceneId, status, error, results, <<>>, calls)

\* what one scene meets: the backend's behaviour, or a failure after it
ImageOutcomes == {"ok", "no_image", "sdk_throw", "blob_throw", "upload_error"}
VideoOutcomes == {"ok", "gen_fail", "sdk_throw", "upload_error", "fetch_fail"}

ImageBehaviour(o) == IF o \in ImageBackend THEN o ELSE "ok"
VideoBehaviour(o) == IF o \in VideoBackend THEN o ELSE "ok"

\* the running state of one request: tables, result list, backend call log
Run(scs, as, results, calls) ==
  [scenes |-> scs, assets |-> as, results |-> results, calls |-> calls]

\* a failure that also removes what the scene had before the attempt
Failed_DropsAssets(st, scene, calls) ==
  [st EXCEPT !.scenes = UpdateStatus(st.scenes, scene.id, "failed"),
             !.assets = DeleteAssets(DeleteAssets(st.assets, {scene.id}, "image"),
                                     {scene.id}, "video"),
             !.results = Append(st.results, [sceneId |-> scene.id, success |-> FALSE]),
             !.calls = calls]

\* a failure that marks the rows the scene already had as failed
Failed_AssetsFailed(st, scene, calls) ==
  LET mine == {a \in BagToSet(st.assets) : a.scene_id = scene.id}
      others == [a \in BagToSet(st.assets) \ mine |-> st.assets[a]]
  IN [st EXCEPT !.scenes = UpdateStatus(st.scenes, scene.id, "failed"),
                !.assets = others (+) SetToBag({[a EXCEPT !.status = "failed"] : a \in mine}),
                !.results = Append(st.results, [sceneId |-> scene.id, success |-> FALSE]),
                !.calls = calls]

\* scenes.update({status: 'failed'}); results.push({sceneId, success: false})
Failed(st, scene, calls) ==
  [st EXCEPT !.scenes = UpdateStatus(st.scenes, scene.id, "failed"),
             !.results = Append(st.results, [sceneId |-> scene.id, success |-> FALSE]),
             !.calls = calls]

CallLog(n, entry) == [k \in 1..n |-> entry]

\* the row written by assets.upsert: always status 'complete'
AssetRow(sceneId, type) ==
  [scene_id |-> sceneId, type |-> type, status |-> "complete"]

\* one scene's image: mark generating, generate, upload, upsert, mark image_complete
ProcessImage(st, scene, ref, o) ==
  LET r == retryWithBackoff([k \in 1..MAX_RETRIES |-> generateImage(ImageBehaviour(o))],
                            MAX_RETRIES)
      calls == st.calls \o CallLog(r.calls, [scene |-> scene.id, ref |-> ref,
                                              waits |-> r.waits])
  IN IF r.threw THEN Failed(st, scene, calls)
     ELSE IF ~r.value.success \/ ~r.value.hasData THEN Failed(st, scene, calls)
     ELSE IF o = "blob_throw" THEN Failed(st, scene, calls)
     ELSE IF o = "upload_error" THEN Failed(st, scene, calls)
     ELSE [scenes |-> UpdateStatus(st.scenes, scene.id, "image_complete"),
           assets |-> Upsert(st.assets, AssetRow(scene.id, "image")),
           results |-> Append(st.results, [sceneId |-> scene.id, success |-> TRUE]),
           calls |-> calls]

\* const fullPrompt = `${style}. ${sceneVideoPrompt}`.trim(): the style prefix and
\* the scene's own video_prompt, which no request of the model overrides
fullPrompt(style, scene) == [style |-> style, scene |-> scene.id]

\* generation_metadata of the video rows a request upserts
generationMetadata(results, style, phase) ==
  {[scene_id |-> results[k].sceneId, type |-> "video", video_style |-> style, phase |-> phase] :
     k \in {j \in DOMAIN results : results[j].success}}

\* one scene's video: mark generating, generate, upload, upsert, mark complete
ProcessVideo(st, scene, seed, style, o) ==
  LET r == retryWithBackoff([k \in 1..MAX_RETRIES |-> generateVideo(VideoBehaviour(o))],
                            MAX_RETRIES)
      calls == st.calls \o CallLog(r.calls, [scene |-> scene.id, ref |-> seed,
                                              prompt |-> fullPrompt(style, scene),
                                              waits |-> r.waits])
  IN IF r.threw THEN Failed(st, scene, calls)
     ELSE IF ~r.value.success \/ ~r.value.hasData THEN Failed(st, scene, calls)
     ELSE IF o = "upload_error" THEN Failed(st, scene, calls)
     ELSE [scenes |-> UpdateStatus(st.scenes, scene.id, "complete"),
           assets |-> Upsert(st.assets, AssetRow(scene.id, "video")),
           results |-> Append(st.results, [sceneId |-> scene.id, success |-> TRUE]),
           calls |-> calls]

Finish(st, sls, proj, phase, sceneId) ==
  Outcome(st.scenes, st.assets, sls, proj,
          GenerateReply(phase, sceneId, 200, "", st.results, st.calls))

Reject(scs, as, sls, proj, phase, sceneId, status, error) ==
  Outcome(scs, as, sls, proj, GenerateReply(phase, sceneId, status, error, <<>>, <<>>))

GenerateFirstImage(scs, as, sls, proj, sceneId, outs) ==
  LET firstScene == FirstByOrder(scs)
      found == {s \in scs : s.id = sceneId}
      targets == IF sceneId # NoSceneId THEN found ELSE {firstScene}
  IN IF targets = {}
     THEN Reject(scs, as, sls, proj, "first_image", sceneId, 404, "Scene not found")
     ELSE LET targetScene == CHOOSE s \in targets : TRUE
          IN IF sceneId = NoSceneId /\ targetScene.order_index # 1
             THEN Reject(scs, as, sls, proj, "first_image", sceneId, 400,
                         "First image phase only supports scene 1")
             ELSE Finish(ProcessImage(Run(scs, as, <<>>, <<>>), targetScene, NoBytes,
                                      outs[targetScene.id]),
                         sls, proj, "first_image", sceneId)

\* sceneId ? allScenes.filter(s => s.id === sceneId) : allScenes.filter(s => s.order_index > 1)
scenesToProcess(scs, sceneId) ==
  LET allScenes == SortByOrder(scs)
      ById(s) == s.id = sceneId
      Rest(s) == s.order_index > 1
  IN IF sceneId # NoSceneId THEN SelectSeq(allScenes, ById) ELSE SelectSeq(allScenes, Rest)

RECURSIVE RemainingImagesLoop_StopOnFailure(_, _, _, _)
\* the loop leaving at the first scene that fails
RemainingImagesLoop_StopOnFailure(st, todo, ref, outs) ==
  IF todo = <<>> THEN st
  ELSE LET scene == Head(todo)
           next == ProcessImage(st, scene, ref, outs[scene.id])
       IN IF ~next.results[Len(next.results)].success THEN next
          ELSE RemainingImagesLoop_StopOnFailure(next, Tail(todo), ref, outs)

RECURSIVE RemainingImagesLoop(_, _, _, _)
\* for (const scene of scenesToProcess): outs[scene.id] is what that scene meets
RemainingImagesLoop(st, todo, ref, outs) ==
  IF todo = <<>> THEN st
  ELSE LET scene == Head(todo)
       IN RemainingImagesLoop(
            ProcessImage(st, scene, ref, outs[scene.id]),
            Tail(todo), ref, outs)

GenerateRemainingImages(scs, as, sls, proj, sceneId, fetchOk, outs) ==
  LET referenceImageBase64 == getFirstImageBase64(scs, as, fetchOk)
  IN IF referenceImageBase64 = NoBytes
     THEN Reject(scs, as, sls, proj, "remaining_images", sceneId, 400, "First image not found")
     ELSE Finish(RemainingImagesLoop(Run(scs, as, <<>>, <<>>), scenesToProcess(scs, sceneId),
                                     referenceImageBase64, outs),
                 sls, proj, "remaining_images", sceneId)

GenerateFirstVideo(scs, as, sls, proj, sceneId, videoStyle, fetchOk, outs) ==
  IF ~Truthy(videoStyle)
  THEN Reject(scs, as, sls, proj, "first_video", sceneId, 400, "videoStyle is required")
  ELSE LET firstScene == FirstByOrder(scs)
           imageBase64 == getSceneImageBase64(as, firstScene.id, fetchOk)
       IN IF imageBase64 = NoBytes
          THEN Reject(scs, as, sls, proj, "first_video", sceneId, 400,
                      "First scene image not found")
          ELSE Finish(ProcessVideo(Run(scs, as, <<>>, <<>>), firstScene, imageBase64,
                                   videoStyle, outs[firstScene.id]),
                      sls, proj, "first_video", sceneId)

RECURSIVE RemainingVideosLoop(_, _, _, _)
\* for (const scene of scenesToProcess): a scene without a fetchable image is skipped
RemainingVideosLoop(st, todo, style, outs) ==
  IF todo = <<>> THEN st
  ELSE LET scene == Head(todo)
           imageBase64 == getSceneImageBase64(st.assets, scene.id, outs[scene.id] # "fetch_fail")
           next == IF imageBase64 = NoBytes
                   THEN [st EXCEPT !.results =
                           Append(st.results, [sceneId |-> scene.id, success |-> FALSE])]
                   ELSE ProcessVideo(st, scene, imageBase64, style, outs[scene.id])
       IN RemainingVideosLoop(next, Tail(todo), style, outs)

\* the request's videoStyle is in scope and is not what the case reads
confirmedVideoStyle_PreferCaller(sls, videoStyle) ==
  IF Truthy(videoStyle) THEN videoStyle ELSE (CHOOSE r \in sls : TRUE).video_style

\* const confirmedVideoStyle = shotList.video_style
confirmedVideoStyle(sls, videoStyle) == (CHOOSE r \in sls : TRUE).video_style

GenerateRemainingVideos(scs, as, sls, proj, sceneId, videoStyle, outs) ==
  IF ~Truthy(confirmedVideoStyle(sls, videoStyle))
     THEN Reject(scs, as, sls, proj, "remaining_videos", sceneId, 400,
                 "Video style not confirmed")
     ELSE Finish(RemainingVideosLoop(Run(scs, as, <<>>, <<>>), scenesToProcess(scs, sceneId),
                                     confirmedVideoStyle(sls, videoStyle), outs),
                 sls, proj, "remaining_videos", sceneId)

GeneratePhases == {"first_image", "remaining_images", "first_video", "remaining_videos"}

\* outs gives every scene the request processes what it meets
GeneratePOST(scs, as, sls, proj, phase, sceneId, videoStyle, fetchOk, outs) ==
  IF sls = {}
  THEN Reject(scs, as, sls, proj, phase, sceneId, 404, "Shot list not found")
  ELSE IF scs = {}
  THEN Reject(scs, as, sls, proj, phase, sceneId, 404, "No scenes found")
  ELSE CASE phase = "first_image" ->
              GenerateFirstImage(scs, as, sls, proj, sceneId, outs)
         [] phase = "remaining_images" ->
              GenerateRemainingImages(scs, as, sls, proj, sceneId, fetchOk, outs)
         [] phase = "first_video" ->
              GenerateFirstVideo(scs, as, sls, proj, sceneId, videoStyle, fetchOk, outs)
         [] phase = "remaining_videos" ->
              GenerateRemainingVideos(scs, as, sls, proj, sceneId, videoStyle, outs)

(* ---------------------------------------------------------------------- *)
(* Actions                                                                 *)
(* ---------------------------------------------------------------------- *)
\* a request is sent when the previous response has been received; the handler
\* runs and its response is in flight
Apply(o) ==
  /\ last = NoResponse
  /\ scenes' = o.scenes
  /\ assets' = o.assets
  /\ shotLists' = o.shotLists
  /\ project' = o.project
  /\ last' = o.resp
  /\ UNCHANGED beside

StyleInputs == {NullText, "", " ", " pan "}

Confirm ==
  \E phase \in ConfirmPhases : \E now \in Times :
  \E videoStyle \in (IF phase = "first_video" THEN StyleInputs ELSE {NullText}) :
    Apply(ConfirmPOST(scenes, assets, shotLists, project, phase, videoStyle, now))

Reset ==
  \E resetTo \in ResetTargets :
    Apply(ResetDELETE(scenes, assets, shotLists, project, resetTo))

SceneIds == {s.id : s \in scenes}
SceneIdInputs == {NoSceneId, UnknownSceneId} \cup SceneIds

\* the scenes whose outcome a request can meet
FirstId == IF scenes = {} THEN {} ELSE {FirstByOrder(scenes).id}
OneTarget(sceneId) == IF sceneId \in SceneIds THEN {sceneId} ELSE FirstId
BatchTargets(sceneId) ==
  IF sceneId \in SceneIds THEN {sceneId}
  ELSE IF sceneId = NoSceneId THEN {s.id : s \in {t \in scenes : t.order_index > 1}}
  ELSE {}

Handle(phase, sceneId, videoStyle, fetchOk, outs) ==
  Apply(GeneratePOST(scenes, assets, shotLists, project, phase, sceneId,
                     videoStyle, fetchOk, outs))

\* the scenes in failing meet the failure kind, the others succeed
Outs(targets, failing, kind) == [id \in targets |-> IF id \in failing THEN kind ELSE "ok"]

\* the outcome assignments a request over targets is run with: all succeed,
\* or a non-empty set of scenes fails in one of the kinds
OutsOver(targets, kinds) ==
  {Outs(targets, {}, "ok")} \cup
  {Outs(targets, failing, kind) : failing \in (SUBSET targets) \ {{}}, kind \in kinds}

GenFirstImage ==
  \E sceneId \in SceneIdInputs :
  \E outs \in OutsOver(OneTarget(sceneId), ImageOutcomes \ {"ok"}) :
    Handle("first_image", sceneId, NullText, TRUE, outs)

GenRemainingImages ==
  \E sceneId \in SceneIdInputs :
    \/ Handle("remaining_images", sceneId, NullText, FALSE,
              Outs(BatchTargets(sceneId), {}, "ok"))
    \/ \E outs \in OutsOver(BatchTargets(sceneId), ImageOutcomes \ {"ok"}) :
         Handle("remaining_images", sceneId, NullText, TRUE, outs)

GenFirstVideo ==
  \E videoStyle \in StyleInputs :
    \/ Handle("first_video", NoSceneId, videoStyle, FALSE, Outs(FirstId, {}, "ok"))
    \/ /\ Truthy(videoStyle)
       /\ \E outs \in OutsOver(FirstId, VideoOutcomes \ {"ok", "fetch_fail"}) :
            Handle("first_video", NoSceneId, videoStyle, TRUE, outs)

GenRemainingVideos ==
  \E sceneId \in SceneIdInputs :
  \E outs \in OutsOver(BatchTargets(sceneId), VideoOutcomes \ {"ok"}) :
    Handle("remaining_videos", sceneId, NullText, TRUE, outs)

Generate == GenFirstImage \/ GenRemainingImages \/ GenFirstVideo \/ GenRemainingVideos

\* the page receives the response (await response.json()) and reloads its data
Receive ==
  /\ last # NoResponse
  /\ last' = NoResponse
  /\ UNCHANGED <<store, beside>>

Next == Generate \/ Confirm \/ Reset \/ Receive

Spec == Init /\ [][Next]_vars

(* ---------------------------------------------------------------------- *)
(* The phase resolver on arbitrary snapshots                               *)
(* ---------------------------------------------------------------------- *)
\* current_step values the page can load
ResolverSteps == {4, 5, 6}
TimeValues == {NullTime} \cup Times

SnapshotScenes == {{NewScene(i) : i \in idx} : idx \in SUBSET (1..ResolverMaxScenes)}
SnapshotAssets(scs) ==
  SUBSET {[scene_id |-> s.id, type |-> t, status |-> st] :
            s \in scs, t \in {"image", "video"}, st \in {"complete", "failed"}}
SnapshotShotLists ==
  {{}} \cup {{[first_image_confirmed_at |-> a, all_images_confirmed_at |-> b,
               first_video_confirmed_at |-> c, video_style |-> NullText]} :
             a \in TimeValues, b \in TimeValues, c \in TimeValues}

ResolverInit ==
  /\ scenes \in SnapshotScenes
  /\ assets \in {SetToBag(rows) : rows \in SnapshotAssets(scenes)}
  /\ shotLists \in SnapshotShotLists
  /\ project \in {[current_step |-> n] : n \in ResolverSteps}
  /\ last = NoResponse
  /\ BesideIdle

\* const currentPhase = deriveCurrentPhase(scenes, assets, shotList, projectCurrentStep)
Resolve ==
  /\ last = NoResponse
  /\ last' = Response("resolve",
                      deriveCurrentPhase(scenes, assets, shotLists, project.current_step),
                      NoSceneId, 0, "", <<>>, <<>>, <<>>)
  /\ UNCHANGED <<store, beside>>

ResolverNext == Resolve

SpecResolver == ResolverInit /\ [][ResolverNext]_vars

(* ---------------------------------------------------------------------- *)
(* The resolver called again: the same snapshot after different earlier    *)
(* calls                                                                   *)
(* ---------------------------------------------------------------------- *)
Phases == {"phase_a", "phase_b", "phase_c", "phase_d", "complete"}

\* what the page's earlier calls of the resolver returned last, if there were any
EarlierCalls == {"none"} \cup Phases

\* a resolver that never goes back from the phase it returned last
Evaluate_Sticky(earlier, scs, as, shotList, projectCurrentStep) ==
  IF earlier = "complete" THEN "complete"
  ELSE deriveCurrentPhase(scs, as, shotList, projectCurrentStep)

\* a call of deriveCurrentPhase made after earlier ones: the function reads its
\* four arguments and nothing else
Evaluate(earlier, scs, as, shotList, projectCurrentStep) ==
  deriveCurrentPhase(scs, as, shotList, projectCurrentStep)

PurityInit ==
  /\ scenes \in {{NewScene(i) : i \in idx} : idx \in SUBSET (1..PurityMaxScenes)}
  /\ assets \in {SetToBag(rows) : rows \in SnapshotAssets(scenes)}
  /\ shotLists \in SnapshotShotLists
  /\ project \in {[current_step |-> n] : n \in ResolverSteps}
  /\ last = NoResponse
  /\ retry = NoRetry /\ asm = NoAssembly
  /\ caller \in {[kind |-> "page", earlier |-> e] : e \in EarlierCalls}

\* the page rendering: the resolver is evaluated on the loaded snapshot, here
\* next to the evaluation a page with no earlier call makes of it
Render ==
  /\ caller.kind = "page"
  /\ caller' = [kind |-> "rendered", earlier |-> caller.earlier,
                phase |-> Evaluate(caller.earlier, scenes, assets, shotLists,
                                   project.current_step),
                first |-> Evaluate("none", scenes, assets, shotLists,
                                   project.current_step)]
  /\ UNCHANGED <<pipeline, retry, asm>>

PurityNext == Render

SpecPurity == PurityInit /\ [][PurityNext]_vars

(* ---------------------------------------------------------------------- *)
(* The video style: what the caller supplies against what is stored        *)
(* ---------------------------------------------------------------------- *)
\* videoStyle values a caller can put in a request body
CallerStyles == StyleInputs \cup {"zoom"}

\* a scene as the generate route leaves it once its assets exist
StyleScene(i, images, videos) ==
  [NewScene(i) EXCEPT !.status = IF i \in videos THEN "complete"
                                 ELSE IF i \in images THEN "image_complete"
                                 ELSE "pending"]

\* projects before the first video is confirmed: any scenes have their image,
\* and Scene 1 may have its video
StyleInit ==
  /\ \E n \in 1..StyleMaxScenes : \E images \in SUBSET (1..n) :
     \E videos \in SUBSET ({1} \cap images) :
     \E firstAt \in TimeValues :
     \E allAt \in (IF images = 1..n THEN TimeValues ELSE {NullTime}) :
       /\ scenes = {StyleScene(i, images, videos) : i \in 1..n}
       /\ assets = SetToBag({AssetRow(SceneId(i), "image") : i \in images}
                            \cup {AssetRow(SceneId(i), "video") : i \in videos})
       /\ shotLists = {[NewShotList EXCEPT !.first_image_confirmed_at = firstAt,
                                           !.all_images_confirmed_at = allAt]}
  /\ project = [current_step |-> 4]
  /\ last = NoResponse
  /\ BesideIdle

\* the state of one request as far as the claims on the style look at it
Observed(o, metadata) ==
  [scenes |-> o.scenes, assets |-> o.assets, shotLists |-> o.shotLists,
   project |-> o.project, resp |-> o.resp, metadata |-> metadata]

\* POST /api/generate/visuals/confirm {phase: 'first_video', videoStyle}
StyleConfirm ==
  \E videoStyle \in CallerStyles : \E now \in Times :
    LET o == ConfirmPOST(scenes, assets, shotLists, project, "first_video", videoStyle, now)
    IN /\ last = NoResponse
       /\ scenes' = o.scenes /\ assets' = o.assets
       /\ shotLists' = o.shotLists /\ project' = o.project
       /\ last' = o.resp
       /\ caller' = [kind |-> "confirm", videoStyle |-> videoStyle, now |-> now]
       /\ UNCHANGED <<retry, asm>>

\* a remaining_videos request with its videoStyle recorded
RemainingVideosRun(sceneId, videoStyle, outs) ==
  LET o == GeneratePOST(scenes, assets, shotLists, project, "remaining_videos",
                        sceneId, videoStyle, TRUE, outs)
  IN Observed(o, IF o.resp.status = 200
                 THEN generationMetadata(o.resp.results,
                                         confirmedVideoStyle(shotLists, videoStyle),
                                         "remaining_videos")
                 ELSE {})

\* POST /api/generate/visuals {phase: 'remaining_videos', sceneId?, videoStyle?},
\* together with the request that differs from it in videoStyle only, run on the
\* same records
StyleRemainingVideos ==
  \E sceneId \in SceneIdInputs :
  \E outs \in OutsOver(BatchTargets(sceneId), VideoOutcomes \ {"ok"}) :
  \E videoStyle \in CallerStyles : \E other \in {NullText, "zoom"} :
    LET run == RemainingVideosRun(sceneId, videoStyle, outs)
    IN /\ last = NoResponse
       /\ scenes' = run.scenes /\ assets' = run.assets
       /\ shotLists' = run.shotLists /\ project' = run.project
       /\ last' = run.resp
       /\ caller' = [kind |-> "remaining_videos", videoStyle |-> videoStyle,
                     read |-> shotLists, metadata |-> run.metadata,
                     other |-> other,
                     otherRun |-> RemainingVideosRun(sceneId, other, outs)]
       /\ UNCHANGED <<retry, asm>>

StyleReceive ==
  /\ last # NoResponse
  /\ last' = NoResponse
  /\ caller' = NotObserved
  /\ UNCHANGED <<store, retry, asm>>

StyleNext == StyleConfirm \/ StyleRemainingVideos \/ StyleReceive

SpecStyle == StyleInit /\ [][StyleNext]_vars

(* ---------------------------------------------------------------------- *)
(* RetryPolicy on its own: retryWithBackoff over every fn of MAX_RETRIES   *)
(* invocations                                                             *)
(* ---------------------------------------------------------------------- *)
\* what one invocation of fn can do: return a result or throw one of two errors
FnBehaviours ==
  {Returned(TRUE, TRUE), Returned(FALSE, FALSE), ThrownError("first"), ThrownError("second")}

RetryInit ==
  /\ scenes = {} /\ assets = EmptyBag /\ shotLists = {}
  /\ project = [current_step |-> 4]
  /\ last = NoResponse
  /\ caller = NotObserved /\ asm = NoAssembly
  /\ \E retries \in 1..MAX_RETRIES : \E fn \in [1..retries -> FnBehaviours] :
       retry = [pc |-> "ready", fn |-> fn, retries |-> retries]

\* await retryWithBackoff(fn, retries)
RunRetry ==
  /\ retry.pc = "ready"
  /\ retry' = [pc |-> "done", fn |-> retry.fn, retries |-> retry.retries,
               outcome |-> retryWithBackoff(retry.fn, retry.retries)]
  /\ UNCHANGED <<store, last, caller, asm>>

RetryNext == RunRetry

SpecRetry == RetryInit /\ [][RetryNext]_vars

(* ---------------------------------------------------------------------- *)
(* AssemblyEngine: concatenateVideos and concatenateWithMusic in the       *)
(* browser, one run at a time over the module's engine                     *)
(* ---------------------------------------------------------------------- *)
\* what the run did, in order: engine calls, what the network and the engine
\* answered, and the progress callbacks
Ev(ev, what, n) == [ev |-> ev, what |-> what, n |-> n]
Progress(stage, progress) == Ev("progress", stage, progress)

NoResult == [kind |-> "none", what |-> ""]
BlobOf(file) == [kind |-> "blob", what |-> file]
ErrorOf(message) == [kind |-> "error", what |-> message]

\* the clips a caller passes: clip k of its list has url "clip<k>" and any order
ClipLists ==
  UNION {{[k \in 1..n |-> [url |-> "clip" \o ToString(k), order |-> order[k]]] :
            order \in [1..n -> 1..MaxClips]} : n \in 0..MaxClips}

\* the clips taken in the order the caller gave them
sortedClips_AsGiven(clips) == clips

RECURSIVE sortedClips(_)
\* [...clips].sort((a, b) => a.order - b.order): ascending and stable
sortedClips(clips) ==
  IF clips = <<>> THEN <<>>
  ELSE LET h == Head(clips)
           rest == sortedClips(Tail(clips))
           Before(c) == c.order < h.order
           NotBefore(c) == ~(c.order < h.order)
       IN SelectSeq(rest, Before) \o <<h>> \o SelectSeq(rest, NotBefore)

\* const fileName = `input${i}.mp4`
InputFile(i) == "input" \o ToString(i) \o ".mp4"

\* the message naming the clip before the one that failed
FetchError_ZeroBased(i) == "Failed to fetch video clip " \o ToString(i)

\* throw new Error(`Failed to fetch video clip ${i + 1}`)
FetchError(i) == "Failed to fetch video clip " \o ToString(i + 1)

\* Math.round(((i + 1) / totalClips) * 100)
FetchingProgress(i, totalClips) == (200 * (i + 1) + totalClips) \div (2 * totalClips)

\* the file the concat command writes
ConcatOutput(kind) == IF kind = "concatenateVideos" THEN "output.mp4" ELSE "concatenated.mp4"

\* the file the run reads back as its result
FinalOutput(kind, music) ==
  IF kind = "concatenateWithMusic" /\ ~music THEN "concatenated.mp4" ELSE "output.mp4"

\* where the run goes when initFFmpeg has returned the engine
AfterInit(clips) == IF clips = <<>> THEN "manifest" ELSE "fetch"

\* the run mixing whether or not a track was supplied
AfterConcat_AlwaysMix(kind, music) == "music"

\* if (!musicUrl) return the concatenated video, else go on to the mix
AfterConcat(kind, music) ==
  IF kind = "concatenateVideos" THEN "read"
  ELSE IF ~music THEN "read" ELSE "music"

\* let ffmpeg: any = null
NoInstance == 0

\* musicUrl: string | null, as the length of the track behind it
NoMusic == 0

\* initFFmpeg creating an instance on every call
Reusable_Never(engine, instance) == FALSE

\* if (ffmpeg && isLoaded) return ffmpeg
Reusable(engine, instance) == instance # NoInstance /\ engine = "loaded"

IdleAssembly ==
  [pc |-> "idle", kind |-> "none", given |-> <<>>, clips |-> <<>>, music |-> FALSE,
   fileNames |-> <<>>, manifest |-> <<>>, trace |-> <<>>, result |-> NoResult,
   engine |-> "none", instance |-> NoInstance, created |-> 0, fs |-> {},
   ff |-> NoInstance]

AssemblyInit ==
  /\ scenes = {} /\ assets = EmptyBag /\ shotLists = {}
  /\ project = [current_step |-> 4]
  /\ last = NoResponse
  /\ caller = NotObserved /\ retry = NoRetry
  /\ asm = IdleAssembly

AssemblyIdle == asm.pc \in {"idle", "done"}

\* the instance the run holds still answers FS and run calls
Live == asm.ff # NoInstance /\ asm.ff = asm.instance

\* an exception leaves the run: nothing is unlinked on the way out
Throw(events, message) ==
  [asm EXCEPT !.pc = "done",
              !.trace = asm.trace \o events \o <<Ev("throw", message, 0)>>,
              !.result = ErrorOf(message)]

\* handleExport calling concatenateVideos(clips) or
\* concatenateWithMusic(clips, musicUrl): the clips are sorted before anything else
StartAssembly(kind, clips, music) ==
  /\ AssemblyIdle
  /\ kind = "concatenateVideos" => ~music
  /\ asm' = [asm EXCEPT !.pc = "init", !.kind = kind, !.given = clips,
                        !.clips = sortedClips(clips), !.music = music,
                        !.fileNames = <<>>, !.manifest = <<>>, !.trace = <<>>,
                        !.result = NoResult, !.ff = NoInstance]
  /\ UNCHANGED <<pipeline, caller, retry>>

\* await initFFmpeg(onProgress); createFFmpeg makes instance number created + 1
InitFFmpeg(outcome) ==
  /\ asm.pc = "init"
  /\ \/ Reusable(asm.engine, asm.instance)
     \/ outcome = "script_error"
     \/ asm.created < MaxEngines
  /\ asm' =
       IF Reusable(asm.engine, asm.instance)
       THEN [asm EXCEPT !.pc = AfterInit(asm.clips), !.ff = asm.instance,
                        !.trace = asm.trace \o <<Ev("load", "reused", asm.instance)>>]
       ELSE IF outcome = "script_error"
       THEN Throw(<<Progress("loading", 0)>>, "Failed to load FFmpeg")
       ELSE IF outcome = "load_error"
       THEN [Throw(<<Progress("loading", 0), Progress("loading", 30),
                     Progress("loading", 50)>>, "ffmpeg.load failed")
               EXCEPT !.engine = "created", !.instance = asm.created + 1,
                      !.created = asm.created + 1, !.fs = {}]
       ELSE [asm EXCEPT !.pc = AfterInit(asm.clips), !.ff = asm.created + 1,
                        !.engine = "loaded", !.instance = asm.created + 1,
                        !.created = asm.created + 1, !.fs = {},
                        !.trace = asm.trace \o
                          <<Progress("loading", 0), Progress("loading", 30),
                            Progress("loading", 50),
                            Ev("load", "loaded", asm.created + 1),
                            Progress("loading", 100)>>]
  /\ UNCHANGED <<pipeline, caller, retry>>

\* one turn of the for loop of fetchAndWriteVideos
FetchClip(outcome) ==
  /\ asm.pc = "fetch"
  /\ LET i == Len(asm.fileNames)
         clip == asm.clips[i + 1]
         fileName == InputFile(i)
         totalClips == Len(asm.clips)
         progress == Progress("fetching", FetchingProgress(i, totalClips))
         fetching == Ev("fetch", clip.url, i + 1)
     IN asm' =
          IF outcome = "fetch_error"
          THEN Throw(<<progress, fetching, Ev("fetch_error", clip.url, i + 1)>>,
                     FetchError(i))
          ELSE IF outcome = "write_error" \/ ~Live
          THEN Throw(<<progress, fetching, Ev("write_error", clip.url, i + 1)>>,
                     FetchError(i))
          ELSE [asm EXCEPT !.pc = IF i + 1 = totalClips THEN "manifest" ELSE "fetch",
                           !.fileNames = Append(asm.fileNames, fileName),
                           !.fs = asm.fs \cup {fileName},
                           !.trace = asm.trace \o
                             <<progress, fetching, Ev("writeFile", fileName, i + 1)>>]
  /\ UNCHANGED <<pipeline, caller, retry>>

\* fileNames.map(name => `file '${name}'`).join('\n'), as its lines
fileList(fileNames) == [k \in DOMAIN fileNames |-> "file '" \o fileNames[k] \o "'"]

\* createConcatFile and the progress callbacks around it
CreateConcatFile ==
  /\ asm.pc = "manifest"
  /\ LET before == IF asm.kind = "concatenateVideos"
                   THEN <<Progress("processing", 0)>> ELSE <<>>
         after == IF asm.kind = "concatenateVideos"
                  THEN <<Progress("encoding", 0)>> ELSE <<Progress("processing", 0)>>
     IN asm' =
          IF ~Live THEN Throw(before, "ffmpeg is not loaded")
          ELSE [asm EXCEPT !.pc = "concat",
                           !.manifest = fileList(asm.fileNames),
                           !.fs = asm.fs \cup {"filelist.txt"},
                           !.trace = asm.trace \o before \o
                             <<Ev("writeFile", "filelist.txt", Len(asm.fileNames))>> \o after]
  /\ UNCHANGED <<pipeline, caller, retry>>

\* await ff.run('-f', 'concat', ..., '-i', 'filelist.txt', '-c', 'copy', output)
RunConcat(outcome) ==
  /\ asm.pc = "concat"
  /\ asm' =
       IF outcome = "run_error" \/ ~Live THEN Throw(<<>>, "ffmpeg.run failed")
       ELSE [asm EXCEPT !.pc = AfterConcat(asm.kind, asm.music),
                        !.fs = asm.fs \cup {ConcatOutput(asm.kind)},
                        !.trace = Append(asm.trace, Ev("concat", ConcatOutput(asm.kind), 0))]
  /\ UNCHANGED <<pipeline, caller, retry>>

\* fetching the music track and writing music.mp3
FetchMusic(outcome) ==
  /\ asm.pc = "music"
  /\ LET fetching == <<Progress("processing", 50), Ev("fetch", "music", 0)>>
     IN asm' =
          IF outcome = "fetch_error" THEN Throw(fetching, "fetch failed")
          ELSE IF ~Live THEN Throw(fetching, "ffmpeg is not loaded")
          ELSE [asm EXCEPT !.pc = "mix",
                           !.fs = asm.fs \cup {"music.mp3"},
                           !.trace = asm.trace \o fetching \o
                             <<Ev("writeFile", "music.mp3", 0), Progress("encoding", 0)>>]
  /\ UNCHANGED <<pipeline, caller, retry>>

\* await ff.run('-i', 'concatenated.mp4', '-i', 'music.mp3', ..., 'output.mp4')
RunMix(outcome) ==
  /\ asm.pc = "mix"
  /\ asm' =
       IF outcome = "run_error" \/ ~Live THEN Throw(<<>>, "ffmpeg.run failed")
       ELSE [asm EXCEPT !.pc = "read",
                        !.fs = asm.fs \cup {"output.mp4"},
                        !.trace = Append(asm.trace, Ev("mix", "output.mp4", 0))]
  /\ UNCHANGED <<pipeline, caller, retry>>

\* the files the run unlinks once it has read its output, in that order
Unlinked(kind, music, fileNames) ==
  fileNames \o <<"filelist.txt">> \o
  (IF kind = "concatenateVideos" THEN <<"output.mp4">>
   ELSE IF ~music THEN <<"concatenated.mp4">>
   ELSE <<"concatenated.mp4", "music.mp3", "output.mp4">>)

\* readFile, the unlinks, the Blob and the return: no await in between, and no
\* try around the unlinks
ReadOutput(outcome) ==
  /\ asm.pc = "read"
  /\ LET silent == asm.kind = "concatenateWithMusic" /\ ~asm.music
         complete == IF silent THEN <<>> ELSE <<Progress("complete", 100)>>
         output == FinalOutput(asm.kind, asm.music)
         unlinked == Unlinked(asm.kind, asm.music, asm.fileNames)
     IN asm' =
          IF ~Live THEN Throw(complete, "ffmpeg is not loaded")
          ELSE IF outcome = "unlink_error"
          THEN Throw(complete \o <<Ev("readFile", output, 0),
                                   Ev("unlink_error", unlinked[1], 0)>>,
                     "unlink failed")
          ELSE [asm EXCEPT !.pc = "done",
                           !.fs = asm.fs \ {unlinked[k] : k \in DOMAIN unlinked},
                           !.result = BlobOf(output),
                           !.trace = asm.trace \o complete \o
                             <<Ev("readFile", output, 0)>> \o
                             [k \in DOMAIN unlinked |-> Ev("unlink", unlinked[k], 0)] \o
                             complete \o <<Ev("return", output, 0)>>]
  /\ UNCHANGED <<pipeline, caller, retry>>

\* cleanupFFmpeg, which the export page calls from its effect cleanup: the
\* instance is exited and dropped with its file system, whatever a run is doing
CleanupFFmpeg ==
  /\ asm.engine # "none"
  /\ asm' = [asm EXCEPT !.engine = "none", !.instance = NoInstance, !.fs = {}]
  /\ UNCHANGED <<pipeline, caller, retry>>

InitOutcomes == {"ok", "script_error", "load_error"}
ClipOutcomes == {"ok", "fetch_error", "write_error"}
RunOutcomes == {"ok", "run_error"}
MusicOutcomes == {"ok", "fetch_error"}
ReadOutcomes == {"ok", "unlink_error"}

AssemblyNext ==
  \/ \E kind \in {"concatenateVideos", "concatenateWithMusic"} :
       \E clips \in ClipLists : \E music \in BOOLEAN : StartAssembly(kind, clips, music)
  \/ \E outcome \in InitOutcomes : InitFFmpeg(outcome)
  \/ \E outcome \in ClipOutcomes : FetchClip(outcome)
  \/ CreateConcatFile
  \/ \E outcome \in RunOutcomes : RunConcat(outcome)
  \/ \E outcome \in MusicOutcomes : FetchMusic(outcome)
  \/ \E outcome \in RunOutcomes : RunMix(outcome)
  \/ \E outcome \in ReadOutcomes : ReadOutput(outcome)
  \/ CleanupFFmpeg

SpecAssembly == AssemblyInit /\ [][AssemblyNext]_vars

(* ---------------------------------------------------------------------- *)
(* Durations of what the two ffmpeg commands write, in whole seconds       *)
(* ---------------------------------------------------------------------- *)
RECURSIVE SumOf(_)
SumOf(q) == IF q = <<>> THEN 0 ELSE Head(q) + SumOf(Tail(q))

Shorter(a, b) == IF a < b THEN a ELSE b
Longer(a, b) == IF a < b THEN b ELSE a

\* -f concat -safe 0 -i filelist.txt -c copy: the listed clips one after the other
ConcatDuration(durations) == SumOf(durations)

\* amix ... duration=first: the mixed audio ends with its first input
AmixFirst(first, second) == first

\* the mix with amix=duration=longest and without -shortest
MixDuration_Longest(video, music) == Longer(video, Longer(video, music))

\* [a0][a1]amix=inputs=2:duration=first gives audio as long as the first input;
\* -map 0:v -map [aout] -shortest ends the output with its shorter stream
MixDuration(video, music) == Shorter(video, AmixFirst(video, music))

\* the duration of the file the run reads back
OutputDuration(kind, durations, music) ==
  IF FinalOutput(kind, music # NoMusic) = ConcatOutput(kind)
  THEN ConcatDuration(durations)
  ELSE MixDuration(ConcatDuration(durations), music)

\* clips of 1 to MaxDuration seconds; a track of up to one second more than
\* the longest video there is, or no track
DurationLists == UNION {[1..n -> 1..MaxDuration] : n \in 1..DurationClips}
MusicDurations == 1..(MaxDuration * DurationClips + 1)

DurationInit ==
  /\ scenes = {} /\ assets = EmptyBag /\ shotLists = {}
  /\ project = [current_step |-> 4]
  /\ last = NoResponse
  /\ caller = NotObserved /\ retry = NoRetry
  /\ \E kind \in {"concatenateVideos", "concatenateWithMusic"} :
       \E durations \in DurationLists : \E music \in MusicDurations \cup {NoMusic} :
         /\ kind = "concatenateVideos" => music = NoMusic
         /\ asm = [pc |-> "assembling", kind |-> kind, durations |-> durations,
                   music |-> music, output |-> NoMusic]

\* the run returning its blob
Assemble ==
  /\ asm.pc = "assembling"
  /\ asm' = [asm EXCEPT !.pc = "assembled",
                        !.output = OutputDuration(asm.kind, asm.durations, asm.music)]
  /\ UNCHANGED <<pipeline, caller, retry>>

DurationNext == Assemble

SpecDuration == DurationInit /\ [][DurationNext]_vars

(* ---------------------------------------------------------------------- *)
(* One remaining_images or remaining_videos batch, await by await          *)
(* ---------------------------------------------------------------------- *)
BatchPhases == {"remaining_images", "remaining_videos"}
AssetType(phase) == IF phase = "remaining_images" THEN "image" ELSE "video"
CompleteStatus(phase) == IF phase = "remaining_images" THEN "image_complete" ELSE "complete"

\* projects on which the batch passes its precondition: Scene 1 has its image,
\* any other scene may have one, and a video style is stored
BatchInit ==
  /\ \E n \in 1..BatchMaxScenes : \E images \in SUBSET (1..n) :
     \E phase \in BatchPhases : \E sceneId \in {NoSceneId} \cup {SceneId(i) : i \in 1..n} :
       /\ 1 \in images
       /\ scenes = {StyleScene(i, images, {}) : i \in 1..n}
       /\ assets = SetToBag({AssetRow(SceneId(i), "image") : i \in images})
       /\ LET sq == scenesToProcess(scenes, sceneId)
          IN caller = [kind |-> "batch", phase |-> phase,
                       todo |-> [k \in DOMAIN sq |-> sq[k].id], pc |-> "next",
                       inflight |-> {}, started |-> <<>>, results |-> <<>>]
  /\ shotLists = {[NewShotList EXCEPT !.video_style = "pan"]}
  /\ project = [current_step |-> 4]
  /\ last = NoResponse
  /\ retry = NoRetry /\ asm = NoAssembly

\* results.push(...) and on to the next scene of the loop
Pushed(c, success) ==
  [c EXCEPT !.results = Append(c.results, [sceneId |-> Head(c.todo), success |-> success]),
            !.todo = Tail(c.todo), !.pc = "next"]

\* the loop going on to the next scene while the call it made is still running
AfterCall_NotAwaited(c) == [c EXCEPT !.pc = "next", !.todo = Tail(c.todo)]

\* await retryWithBackoff(...): the loop stands still until the call has returned
AfterCall(c) == [c EXCEPT !.pc = "await"]

\* the top of the loop body: the seed image read of remaining_videos, then
\* scenes.update({status: 'generating'})
BatchScene(seedOk) ==
  /\ caller.kind = "batch" /\ caller.pc = "next" /\ caller.todo # <<>>
  /\ caller.phase = "remaining_images" => seedOk
  /\ IF /\ caller.phase = "remaining_videos"
        /\ getSceneImageBase64(assets, Head(caller.todo), seedOk) = NoBytes
     THEN /\ caller' = Pushed(caller, FALSE)
          /\ UNCHANGED scenes
     ELSE /\ scenes' = UpdateStatus(scenes, Head(caller.todo), "generating")
          /\ caller' = [caller EXCEPT !.pc = "call"]
  /\ UNCHANGED <<assets, shotLists, project, last, retry, asm>>

\* generateImage / generateVideo is invoked for the scene
BatchCall ==
  /\ caller.kind = "batch" /\ caller.pc = "call"
  /\ caller' = AfterCall([caller EXCEPT !.inflight = caller.inflight \cup {Head(caller.todo)},
                                        !.started = Append(caller.started, Head(caller.todo))])
  /\ UNCHANGED <<pipeline, retry, asm>>

\* the call returns its result; a failure is persisted and pushed
BatchReturn(success) ==
  /\ caller.kind = "batch" /\ caller.pc = "await"
  /\ LET returned == [caller EXCEPT !.inflight = caller.inflight \ {Head(caller.todo)}]
     IN IF success
        THEN /\ caller' = [returned EXCEPT !.pc = "upsert"]
             /\ UNCHANGED scenes
        ELSE /\ scenes' = UpdateStatus(scenes, Head(caller.todo), "failed")
             /\ caller' = Pushed(returned, FALSE)
  /\ UNCHANGED <<assets, shotLists, project, last, retry, asm>>

\* the upload to storage, then assets.upsert
BatchUpsert(uploaded) ==
  /\ caller.kind = "batch" /\ caller.pc = "upsert"
  /\ IF uploaded
     THEN /\ assets' = Upsert(assets, AssetRow(Head(caller.todo), AssetType(caller.phase)))
          /\ caller' = [caller EXCEPT !.pc = "status"]
          /\ UNCHANGED scenes
     ELSE /\ scenes' = UpdateStatus(scenes, Head(caller.todo), "failed")
          /\ caller' = Pushed(caller, FALSE)
          /\ UNCHANGED assets
  /\ UNCHANGED <<shotLists, project, last, retry, asm>>

\* scenes.update({status: 'image_complete' | 'complete'}) and the success result
BatchStatus ==
  /\ caller.kind = "batch" /\ caller.pc = "status"
  /\ scenes' = UpdateStatus(scenes, Head(caller.todo), CompleteStatus(caller.phase))
  /\ caller' = Pushed(caller, TRUE)
  /\ UNCHANGED <<assets, shotLists, project, last, retry, asm>>

\* return NextResponse.json({ results })
BatchReply ==
  /\ caller.kind = "batch" /\ caller.pc = "next" /\ caller.todo = <<>>
  /\ caller' = [caller EXCEPT !.pc = "done"]
  /\ last' = GenerateReply(caller.phase, NoSceneId, 200, "", caller.results, <<>>)
  /\ UNCHANGED <<store, retry, asm>>

BatchNext ==
  \/ \E seedOk \in BOOLEAN : BatchScene(seedOk)
  \/ BatchCall
  \/ \E success \in BOOLEAN : BatchReturn(success)
  \/ \E uploaded \in BOOLEAN : BatchUpsert(uploaded)
  \/ BatchStatus
  \/ BatchReply

SpecBatch == BatchInit /\ [][BatchNext]_vars

(* ---------------------------------------------------------------------- *)
(* generateVideo poll by poll, under retryWithBackoff                      *)
(* ---------------------------------------------------------------------- *)
\* {success: false, error}
Failure(error) == [threw |-> FALSE, success |-> FALSE, hasData |-> FALSE, error |-> error]

\* `Video generation timed out after ${(MAX_POLL_ATTEMPTS * POLL_INTERVAL_MS) / 1000} seconds`
TimeoutFailure ==
  Failure("Video generation timed out after "
          \o ToString((MAX_POLL_ATTEMPTS * POLL_INTERVAL_MS) \div 1000) \o " seconds")

\* the loop allowing one poll more than MAX_POLL_ATTEMPTS
KeepPolling_OneMore(done, attempts) == ~done /\ attempts <= MAX_POLL_ATTEMPTS

\* while (!currentOperation.done && attempts < MAX_POLL_ATTEMPTS)
KeepPolling(done, attempts) == ~done /\ attempts < MAX_POLL_ATTEMPTS

PollInit ==
  /\ scenes = {} /\ assets = EmptyBag /\ shotLists = {}
  /\ project = [current_step |-> 4]
  /\ last = NoResponse
  /\ caller = NotObserved /\ asm = NoAssembly
  /\ retry = [pc |-> "start", done |-> FALSE, attempts |-> 0, slept |-> 0,
              caught |-> FALSE, result |-> NoError, outcome |-> NoError]

\* client.models.generateVideos(params) and the operation-name check
StartOperation(answer) ==
  /\ retry.pc = "start"
  /\ retry' = CASE answer = "pending" -> [retry EXCEPT !.pc = "loop"]
                [] answer = "done" -> [retry EXCEPT !.pc = "loop", !.done = TRUE]
                [] answer = "no_name" ->
                     [retry EXCEPT !.pc = "returned",
                                   !.result = Failure("No operation name returned")]
                [] answer = "sdk_throw" ->
                     [retry EXCEPT !.pc = "returned", !.caught = TRUE,
                                   !.result = Failure("sdk")]
  /\ UNCHANGED <<pipeline, caller, asm>>

\* one turn of the loop: sleep, attempts++, getVideosOperation
PollOnce(answer) ==
  /\ retry.pc = "loop"
  /\ KeepPolling(retry.done, retry.attempts)
  /\ LET polled == [retry EXCEPT !.attempts = retry.attempts + 1,
                                 !.slept = retry.slept + POLL_INTERVAL_MS]
     IN retry' = CASE answer = "pending" -> polled
                   [] answer = "done" -> [polled EXCEPT !.done = TRUE]
                   [] answer = "sdk_throw" ->
                        [polled EXCEPT !.pc = "returned", !.caught = TRUE,
                                       !.result = Failure("sdk")]
  /\ UNCHANGED <<pipeline, caller, asm>>

\* after the loop: the timeout check, the operation's error, the video in the response
AfterLoop(response) ==
  /\ retry.pc = "loop"
  /\ ~KeepPolling(retry.done, retry.attempts)
  /\ retry.done \/ response = "video"
  /\ retry' = [retry EXCEPT !.pc = "returned",
                 !.result = CASE ~retry.done -> TimeoutFailure
                              [] response = "video" -> Returned(TRUE, TRUE)
                              [] response = "error" -> Failure("Video generation failed")
                              [] response = "no_video" -> Failure("No videos generated")]
  /\ UNCHANGED <<pipeline, caller, asm>>

\* retryWithBackoff(() => generateVideo(...)) over the result generateVideo returned
RetryReturns ==
  /\ retry.pc = "returned"
  /\ retry' = [retry EXCEPT !.pc = "settled",
                 !.outcome = retryWithBackoff([k \in 1..MAX_RETRIES |-> retry.result],
                                              MAX_RETRIES)]
  /\ UNCHANGED <<pipeline, caller, asm>>

PollNext ==
  \/ \E answer \in {"pending", "done", "no_name", "sdk_throw"} : StartOperation(answer)
  \/ \E answer \in {"pending", "done", "sdk_throw"} : PollOnce(answer)
  \/ \E response \in {"video", "error", "no_video"} : AfterLoop(response)
  \/ RetryReturns

\* every await of generateVideo settles: the SDK call answers or throws
SpecPoll == PollInit /\ [][PollNext]_vars /\ WF_vars(PollNext)

(* ---------------------------------------------------------------------- *)
(* The pipeline on a project the wizard has already taken further          *)
(* ---------------------------------------------------------------------- *)
\* projects whose visuals are all generated and confirmed, at the Visuals step or
\* at a later step of the wizard (Voice sets 5 -> 6), to which the user returns
StepInit ==
  /\ \E n \in 1..StepMaxScenes :
       /\ scenes = {StyleScene(i, 1..n, 1..n) : i \in 1..n}
       /\ assets = SetToBag({AssetRow(SceneId(i), type) : i \in 1..n, type \in {"image", "video"}})
  /\ shotLists = {[NewShotList EXCEPT !.first_image_confirmed_at = 1,
                                      !.all_images_confirmed_at = 1,
                                      !.first_video_confirmed_at = 1,
                                      !.video_style = "pan"]}
  /\ \E step \in 4..LastStep : project = [current_step |-> step]
  /\ last = NoResponse
  /\ BesideIdle

SpecStep == StepInit /\ [][Next]_vars

(* ---------------------------------------------------------------------- *)
(* A request and a resetTo=first_image running at the same time, each      *)
(* store read and write a step of its own                                  *)
(* ---------------------------------------------------------------------- *)
NoReset == [pc |-> "idle", scenesToClear |-> {}, all |-> {}]

\* a project in Phase B: Scene 1's image is confirmed, later scenes may have theirs.
\* The request is a remaining_images batch past its reference-image read, or a
\* confirm(all_images) about to read the assets.
RaceInit ==
  /\ \E n \in 2..RaceMaxScenes : \E images \in SUBSET (1..n) :
       /\ 1 \in images
       /\ scenes = {StyleScene(i, images, {}) : i \in 1..n}
       /\ assets = SetToBag({AssetRow(SceneId(i), "image") : i \in images})
       /\ \/ \E sceneId \in {NoSceneId} \cup {SceneId(i) : i \in 2..n} :
               LET sq == scenesToProcess(scenes, sceneId)
               IN caller = [kind |-> "batch", phase |-> "remaining_images",
                            todo |-> [k \in DOMAIN sq |-> sq[k].id], pc |-> "next",
                            inflight |-> {}, started |-> <<>>, results |-> <<>>,
                            reset |-> NoReset]
          \/ caller = [kind |-> "confirm", pc |-> "read", assets |-> EmptyBag,
                       now |-> NullTime, reset |-> NoReset]
  /\ shotLists = {[NewShotList EXCEPT !.first_image_confirmed_at = 1]}
  /\ project = [current_step |-> 4]
  /\ last = NoResponse
  /\ retry = NoRetry /\ asm = NoAssembly

\* confirm: the assets select, then const now = new Date().toISOString()
ConfirmRead ==
  /\ caller.kind = "confirm" /\ caller.pc = "read"
  /\ \E now \in Times :
       caller' = [caller EXCEPT !.pc = "write", !.assets = assets, !.now = now]
  /\ UNCHANGED <<pipeline, retry, asm>>

\* confirm: case 'all_images' over the assets it read, writing the row as it is now
ConfirmWrite ==
  /\ caller.kind = "confirm" /\ caller.pc = "write"
  /\ LET o == ConfirmAllImages(scenes, caller.assets, shotLists, project, caller.now)
     IN /\ shotLists' = o.shotLists
        /\ last' = o.resp
  /\ caller' = [caller EXCEPT !.pc = "done"]
  /\ UNCHANGED <<scenes, assets, project, retry, asm>>

\* DELETE ?resetTo=first_image arrives while the request is running: the scenes select
ResetRead ==
  /\ caller.reset.pc = "idle" /\ caller.pc # "done"
  /\ caller' = [caller EXCEPT !.reset =
                  [pc |-> "images",
                   scenesToClear |-> {s.id : s \in {t \in scenes : t.order_index > 1}},
                   all |-> {s.id : s \in scenes}]]
  /\ UNCHANGED <<pipeline, retry, asm>>

\* assets.delete().in('scene_id', scenesToClear).eq('type', 'image')
ResetDeleteImages ==
  /\ caller.reset.pc = "images"
  /\ assets' = DeleteAssets(assets, caller.reset.scenesToClear, "image")
  /\ caller' = [caller EXCEPT !.reset.pc = "statuses"]
  /\ UNCHANGED <<scenes, shotLists, project, last, retry, asm>>

\* scenes.update({status: 'pending'}).in('id', scenesToClear)
ResetStatuses ==
  /\ caller.reset.pc = "statuses"
  /\ scenes' = UpdateStatusIn(scenes, caller.reset.scenesToClear, "pending")
  /\ caller' = [caller EXCEPT !.reset.pc = "confirmations"]
  /\ UNCHANGED <<assets, shotLists, project, last, retry, asm>>

\* shot_lists.update({the three timestamps and video_style: null})
ResetConfirmations ==
  /\ caller.reset.pc = "confirmations"
  /\ shotLists' = {[sl EXCEPT !.first_image_confirmed_at = NullTime,
                              !.all_images_confirmed_at = NullTime,
                              !.first_video_confirmed_at = NullTime,
                              !.video_style = NullText] : sl \in shotLists}
  /\ caller' = [caller EXCEPT !.reset.pc = "videos"]
  /\ UNCHANGED <<scenes, assets, project, last, retry, asm>>

\* assets.delete().in('scene_id', all scenes).eq('type', 'video'), and the response
ResetDeleteVideos ==
  /\ caller.reset.pc = "videos"
  /\ assets' = DeleteAssets(assets, caller.reset.all, "video")
  /\ caller' = [caller EXCEPT !.reset.pc = "done"]
  /\ UNCHANGED <<scenes, shotLists, project, last, retry, asm>>

RaceNext ==
  \/ BatchNext
  \/ ConfirmRead
  \/ ConfirmWrite
  \/ ResetRead
  \/ ResetDeleteImages
  \/ ResetStatuses
  \/ ResetConfirmations
  \/ ResetDeleteVideos

SpecRace == RaceInit /\ [][RaceNext]_vars

(* ---------------------------------------------------------------------- *)
(* initFFmpeg called by several runs at once, await by await               *)
(* ---------------------------------------------------------------------- *)
LoadCallers == 1..MaxCallers
NotCalled == [pc |-> "idle", mine |-> NoInstance, got |-> NoInstance]

\* let ffmpeg = null; let isLoaded = false, and no initFFmpeg call made yet
LoadInit ==
  /\ scenes = {} /\ assets = EmptyBag /\ shotLists = {}
  /\ project = [current_step |-> 4]
  /\ last = NoResponse
  /\ caller = NotObserved /\ retry = NoRetry
  /\ asm = [pc |-> "overlap", ffmpeg |-> NoInstance, isLoaded |-> FALSE,
            created |-> 0, loaded |-> {}, calls |-> [c \in LoadCallers |-> NotCalled]]

\* the call up to its first await: the reuse check, then the script promise
CallInit(c) ==
  /\ asm.pc = "overlap" /\ asm.calls[c].pc = "idle"
  /\ asm' = IF Reusable(IF asm.isLoaded THEN "loaded" ELSE "none", asm.ffmpeg)
            THEN [asm EXCEPT !.calls[c] = [pc |-> "returned", mine |-> NoInstance,
                                           got |-> asm.ffmpeg]]
            ELSE [asm EXCEPT !.calls[c].pc = "script"]
  /\ UNCHANGED <<pipeline, caller, retry>>

\* the script promise settles; on success ffmpeg = createFFmpeg(...) and
\* ffmpeg.load() is started, up to the await of the load
ScriptSettles(c, outcome) ==
  /\ asm.pc = "overlap" /\ asm.calls[c].pc = "script"
  /\ asm' = IF outcome = "script_error"
            THEN [asm EXCEPT !.calls[c].pc = "threw"]
            ELSE [asm EXCEPT !.ffmpeg = asm.created + 1,
                             !.created = asm.created + 1,
                             !.calls[c] = [pc |-> "loading", mine |-> asm.created + 1,
                                           got |-> NoInstance]]
  /\ UNCHANGED <<pipeline, caller, retry>>

\* the load this call started settles; on success isLoaded = true; return ffmpeg
LoadSettles(c, outcome) ==
  /\ asm.pc = "overlap" /\ asm.calls[c].pc = "loading"
  /\ asm' = IF outcome = "load_error"
            THEN [asm EXCEPT !.calls[c].pc = "threw"]
            ELSE [asm EXCEPT !.isLoaded = TRUE,
                             !.loaded = asm.loaded \cup {asm.calls[c].mine},
                             !.calls[c].pc = "returned",
                             !.calls[c].got = asm.ffmpeg]
  /\ UNCHANGED <<pipeline, caller, retry>>

LoadNext ==
  \E c \in LoadCallers :
    \/ CallInit(c)
    \/ \E outcome \in {"ok", "script_error"} : ScriptSettles(c, outcome)
    \/ \E outcome \in {"ok", "load_error"} : LoadSettles(c, outcome)

SpecLoad == LoadInit /\ [][LoadNext]_vars

(* ---------------------------------------------------------------------- *)
(* Vocabulary of the properties                                            *)
(* ---------------------------------------------------------------------- *)
Scene1 == {s \in scenes : s.order_index = 1}
CompleteAsset(s, type) ==
  \E a \in BagToSet(assets) : a.scene_id = s.id /\ a.type = type /\ a.status = "complete"
Scene1Has(type) == \E s \in Scene1 : CompleteAsset(s, type)
Lacking(type) == {s \in scenes : ~CompleteAsset(s, type)}
FirstImageConfirmed == \E sl \in shotLists : sl.first_image_confirmed_at # NullTime
AllImagesConfirmed == \E sl \in shotLists : sl.all_images_confirmed_at # NullTime
FirstVideoConfirmed == \E sl \in shotLists : sl.first_video_confirmed_at # NullTime
CurrentPhase == deriveCurrentPhase(scenes, assets, shotLists, project.current_step)

Did(op, phase) == last.op = op /\ last.phase = phase
Accepted == last.status = 200
Rejected == last.status # 200

\* q lists exactly the members of S, each once, in ascending order
IsAscendingListOf(q, S) ==
  /\ Len(q) = Cardinality(S)
  /\ {q[k] : k \in DOMAIN q} = S
  /\ \A j, k \in DOMAIN q : j < k => q[j] < q[k]

(* ---------------------------------------------------------------------- *)
(* C1: on every snapshot the resolver returns the phase of the first       *)
(* matching rule A, B, C, D, else complete; it returns phase A when there  *)
(* are no scenes or no shot list.                                          *)
(* ---------------------------------------------------------------------- *)
RuleA == ~Scene1Has("image") \/ ~FirstImageConfirmed
RuleB == Lacking("image") # {} \/ ~AllImagesConfirmed
RuleC == ~Scene1Has("video") \/ ~FirstVideoConfirmed
RuleD == Lacking("video") # {} \/ project.current_step < 5

C2_TimestampsInPhaseOrder ==
  \A sl \in shotLists :
    /\ sl.all_images_confirmed_at # NullTime => sl.first_image_confirmed_at # NullTime
    /\ sl.first_video_confirmed_at # NullTime => sl.all_images_confirmed_at # NullTime

(* ---------------------------------------------------------------------- *)
(* C3: confirm(all_images) while some scene has no complete image asset is *)
(* rejected, and all_images_confirmed_at is null after the call.           *)
(* ---------------------------------------------------------------------- *)
C3_AllImagesRejectedWhenIncomplete ==
  (Did("confirm", "all_images") /\ Lacking("image") # {}) =>
    /\ Rejected
    /\ ~AllImagesConfirmed

\* the first image is confirmed, a later scene has no image, all_images is refused
C3_Witness ==
  /\ Did("confirm", "all_images")
  /\ last.status = 400
  /\ FirstImageConfirmed
  /\ Scene1Has("image")
  /\ Lacking("image") # {}

(* ---------------------------------------------------------------------- *)
(* C4: a rejected confirm, of any phase and for any reason, changes no     *)
(* scene, asset, shot list or project field.                               *)
(* ---------------------------------------------------------------------- *)
C4_RejectedConfirmWritesNothing ==
  [][(last'.op = "confirm" /\ last'.status # 200) => store' = store]_vars

\* first_video refused for a blank style although the first video is complete
C4_Witness ==
  /\ Did("confirm", "first_video")
  /\ last.status = 400
  /\ last.error = "videoStyle is required"
  /\ Scene1Has("video")
  /\ ~FirstVideoConfirmed

(* ---------------------------------------------------------------------- *)
(* C5: when confirm(all_images) / confirm(all_videos) is rejected for      *)
(* incompleteness, the returned list is exactly the order_index values of  *)
(* the scenes without a complete image / video, ascending; with 3 scenes   *)
(* of which only Scene 1 has a complete image it is [2,3].                 *)
(* ---------------------------------------------------------------------- *)
OrderIndexesOf(S) == {s.order_index : s \in S}

C5_IncompleteListIsExact ==
  /\ (Did("confirm", "all_images") /\ last.status = 400) =>
       IsAscendingListOf(last.incompleteScenes, OrderIndexesOf(Lacking("image")))
  /\ (Did("confirm", "all_videos") /\ last.status = 400) =>
       IsAscendingListOf(last.incompleteScenes, OrderIndexesOf(Lacking("video")))
  /\ (/\ Did("confirm", "all_images")
      /\ OrderIndexesOf(scenes) = {1, 2, 3}
      /\ OrderIndexesOf(Lacking("image")) = {2, 3}) =>
       (last.status = 400 /\ last.incompleteScenes = <<2, 3>>)

\* 3 scenes, Scene 1 generated and confirmed, all_images refused with [2,3]
C5_Witness ==
  /\ Did("confirm", "all_images")
  /\ last.status = 400
  /\ OrderIndexesOf(scenes) = {1, 2, 3}
  /\ FirstImageConfirmed
  /\ last.incompleteScenes = <<2, 3>>

(* ---------------------------------------------------------------------- *)
(* C6: after an accepted reset to first_image, from any state: no video    *)
(* assets, no image assets of scenes with order_index > 1, those scenes    *)
(* pending, the three confirmation timestamps and video_style null,        *)
(* Scene 1's image asset as it was, and the resolver returns phase A.      *)
(* ---------------------------------------------------------------------- *)
ImagesOfScene1(scs, as) ==
  LET rows == {a \in BagToSet(as) :
                 a.type = "image" /\ \E s \in scs : s.order_index = 1 /\ s.id = a.scene_id}
  IN [a \in rows |-> as[a]]
LaterScenes(scs) == {s \in scs : s.order_index > 1}

ResetToFirstImageDone ==
  /\ last'.op = "reset" /\ last'.phase = "first_image" /\ last'.status = 200

C6_ResetToFirstImageEffect ==
  [][ResetToFirstImageDone =>
       /\ \A a \in BagToSet(assets') : a.type # "video"
       /\ \A a \in BagToSet(assets') : \A s \in LaterScenes(scenes') : a.scene_id # s.id
       /\ \A s \in LaterScenes(scenes') : s.status = "pending"
       /\ \A sl \in shotLists' :
            /\ sl.first_image_confirmed_at = NullTime
            /\ sl.all_images_confirmed_at = NullTime
            /\ sl.first_video_confirmed_at = NullTime
            /\ sl.video_style = NullText
       /\ shotLists' # {}
       /\ ImagesOfScene1(scenes', assets') = ImagesOfScene1(scenes, assets)
       /\ CurrentPhase' = "phase_a"]_vars

\* the reset has run on a project whose videos had all been confirmed
C6_Witness ==
  /\ Did("reset", "first_image") /\ Accepted
  /\ project.current_step = 5
  /\ Scene1Has("image")
  /\ LaterScenes(scenes) # {}
  /\ \E s \in Scene1 : s.status = "complete"

ResetToFirstVideoDone ==
  /\ last'.op = "reset" /\ last'.phase = "first_video" /\ last'.status = 200

ImageAssets(as) == [a \in {r \in BagToSet(as) : r.type = "image"} |-> as[a]]

C8_ResetToFirstVideoEffect ==
  [][ResetToFirstVideoDone =>
       /\ \A a \in BagToSet(assets') : a.type # "video"
       /\ \A s \in scenes' : s.status = "image_complete"
       /\ {s.id : s \in scenes'} = {s.id : s \in scenes}
       /\ ImageAssets(assets') = ImageAssets(assets)
       /\ shotLists' # {}
       /\ \A sl \in shotLists : \A new \in shotLists' :
            /\ new.first_video_confirmed_at = NullTime
            /\ new.video_style = NullText
            /\ new.first_image_confirmed_at = sl.first_image_confirmed_at
            /\ new.all_images_confirmed_at = sl.all_images_confirmed_at]_vars

\* the reset has run with both image confirmations set and every image present
C8_Witness ==
  /\ Did("reset", "first_video") /\ Accepted
  /\ FirstImageConfirmed /\ AllImagesConfirmed
  /\ Lacking("image") = {}
  /\ Cardinality(scenes) > 1
  /\ \A s \in scenes : s.status = "image_complete"
  /\ \A sl \in shotLists : sl.video_style = NullText

(* ---------------------------------------------------------------------- *)
(* C9: a remaining_images or remaining_videos request processes every      *)
(* target scene exactly once in ascending order_index and returns exactly  *)
(* one result entry per target, in that order, whatever subset of the      *)
(* scenes fails.                                                           *)
(* ---------------------------------------------------------------------- *)
TargetScenes ==
  IF last.sceneId = NoSceneId THEN LaterScenes(scenes)
  ELSE {s \in scenes : s.id = last.sceneId}
OrderOf(id) == (CHOOSE s \in scenes : s.id = id).order_index
ResultOrder == [k \in DOMAIN last.results |-> OrderOf(last.results[k].sceneId)]
CallOrder == [k \in DOMAIN last.calls |-> OrderOf(last.calls[k].scene)]
IsAscending(q) == \A j, k \in DOMAIN q : j < k => q[j] < q[k]

C9_EveryTargetOnceInOrder ==
  /\ (Did("generate", "remaining_images") /\ Accepted) =>
       /\ IsAscendingListOf(ResultOrder, OrderIndexesOf(TargetScenes))
       /\ IsAscendingListOf(CallOrder, OrderIndexesOf(TargetScenes))
  /\ (Did("generate", "remaining_videos") /\ Accepted) =>
       /\ IsAscendingListOf(ResultOrder, OrderIndexesOf(TargetScenes))
       /\ IsAscending(CallOrder)
       /\ \A k \in DOMAIN last.results :
            last.results[k].success =>
              \E c \in DOMAIN last.calls : last.calls[c].scene = last.results[k].sceneId

\* Scene 2 failed and Scene 3 was still processed, successfully
C9_Witness ==
  /\ Did("generate", "remaining_images") /\ Accepted
  /\ last.sceneId = NoSceneId
  /\ Len(last.results) = 2
  /\ ~last.results[1].success /\ OrderOf(last.results[1].sceneId) = 2
  /\ last.results[2].success /\ OrderOf(last.results[2].sceneId) = 3

(* ---------------------------------------------------------------------- *)
(* C10 as stated: remaining_images over a shot list of N scenes issues     *)
(* exactly N-1 image-backend calls when no scene id is supplied and        *)
(* exactly 1 when one is supplied, regardless of which calls fail.         *)
(* ---------------------------------------------------------------------- *)
C10_CallsAsStated ==
  (Did("generate", "remaining_images") /\ Accepted) =>
    Len(last.calls) = IF last.sceneId = NoSceneId THEN Cardinality(scenes) - 1 ELSE 1

(* ---------------------------------------------------------------------- *)
(* C10 amended: an accepted remaining_images request issues exactly one    *)
(* image-backend call per scene with order_index > 1 when no scene id is   *)
(* supplied (N-1 when the N scenes are numbered 1..N), exactly 1 when the  *)
(* supplied id is a scene of the shot list and none when it is not,        *)
(* regardless of which calls fail.                                         *)
(* ---------------------------------------------------------------------- *)
C10_CallsPerTarget ==
  (Did("generate", "remaining_images") /\ Accepted) =>
    /\ last.sceneId = NoSceneId =>
         /\ Len(last.calls) = Cardinality(LaterScenes(scenes))
         /\ OrderIndexesOf(scenes) = 1..Cardinality(scenes) =>
              Len(last.calls) = Cardinality(scenes) - 1
    /\ (last.sceneId # NoSceneId /\ last.sceneId \in {s.id : s \in scenes}) =>
         Len(last.calls) = 1
    /\ (last.sceneId # NoSceneId /\ last.sceneId \notin {s.id : s \in scenes}) =>
         Len(last.calls) = 0

\* 3 scenes, no scene id, both calls failed: still exactly 2 calls
C10_Witness ==
  /\ Did("generate", "remaining_images") /\ Accepted
  /\ last.sceneId = NoSceneId
  /\ Cardinality(scenes) = 3
  /\ Len(last.calls) = 2
  /\ \A k \in DOMAIN last.results : ~last.results[k].success

(* ---------------------------------------------------------------------- *)
(* C11: a remaining_images request performs no generation and writes       *)
(* nothing unless Scene 1 has a complete image asset and that image has    *)
(* been confirmed (first_image_confirmed_at is non-null).                  *)
(* ---------------------------------------------------------------------- *)
C11_NeedsConfirmedFirstImage ==
  [][(/\ last'.op = "generate" /\ last'.phase = "remaining_images"
      /\ (last'.calls # <<>> \/ store' # store))
       => (Scene1Has("image") /\ FirstImageConfirmed)]_vars

(* ---------------------------------------------------------------------- *)
(* C12: every video a remaining_videos request generates has as style      *)
(* prefix of its prompt the video_style stored on the shot list when the   *)
(* request was read, and two requests that differ only in the videoStyle   *)
(* the caller supplies make the same backend calls and store the same      *)
(* records.                                                                *)
(* ---------------------------------------------------------------------- *)
StoredStyles(sls) == {sl.video_style : sl \in sls}

C12_StyleIsTheStoredOne ==
  caller.kind = "remaining_videos" =>
    /\ \A k \in DOMAIN last.calls : last.calls[k].prompt.style \in StoredStyles(caller.read)
    /\ \A m \in caller.metadata : m.video_style \in StoredStyles(caller.read)
    /\ caller.otherRun = Observed([scenes |-> scenes, assets |-> assets,
                                   shotLists |-> shotLists, project |-> project,
                                   resp |-> last], caller.metadata)

\* style "pan" is stored, one caller sends "zoom" and the other none: Scene 2's
\* video was generated
C12_Witness ==
  /\ caller.kind = "remaining_videos"
  /\ caller.videoStyle = "zoom" /\ caller.other = NullText
  /\ StoredStyles(caller.read) = {"pan"}
  /\ Accepted
  /\ \E k \in DOMAIN last.calls : OrderIndexesOf({s \in scenes : s.id = last.calls[k].scene}) = {2}
  /\ \E m \in caller.metadata : m.video_style = "pan"

(* ---------------------------------------------------------------------- *)
(* C13: a first_image request generates only for the scene with            *)
(* order_index = 1, writes the image asset and the status of that scene    *)
(* only, and calls the image backend without a reference image, whatever   *)
(* sceneId the request carries.                                            *)
(* ---------------------------------------------------------------------- *)
Scene1Ids == {s.id : s \in Scene1}
AssetsOfOthers(as) == [a \in {r \in BagToSet(as) : r.scene_id \notin Scene1Ids} |-> as[a]]

C13_FirstImageIsSceneOneOnly ==
  [][(last'.op = "generate" /\ last'.phase = "first_image") =>
       /\ \A k \in DOMAIN last'.calls :
            last'.calls[k].scene \in Scene1Ids /\ last'.calls[k].ref = NoBytes
       /\ \A k \in DOMAIN last'.results : last'.results[k].sceneId \in Scene1Ids
       /\ \A s \in scenes : s.order_index # 1 => s \in scenes'
       /\ AssetsOfOthers(assets') = AssetsOfOthers(assets)]_vars

(* ---------------------------------------------------------------------- *)
(* C14 as stated: confirm(first_video) succeeds only if the supplied       *)
(* videoStyle is non-empty and Scene 1 has a complete video asset; on      *)
(* success first_video_confirmed_at is set, the stored video_style equals  *)
(* the videoStyle the caller supplied, and no other field changes.         *)
(* ---------------------------------------------------------------------- *)
FirstVideoConfirmDone == caller'.kind = "confirm" /\ last'.status = 200

OnlyFirstVideoFieldsChange ==
  /\ scenes' = scenes /\ assets' = assets /\ project' = project
  /\ shotLists' # {}
  /\ \A sl \in shotLists : \A new \in shotLists' :
       /\ new.first_video_confirmed_at = caller'.now
       /\ new.first_image_confirmed_at = sl.first_image_confirmed_at
       /\ new.all_images_confirmed_at = sl.all_images_confirmed_at

C14_StoresSuppliedStyle ==
  [][FirstVideoConfirmDone =>
       /\ caller'.videoStyle \notin {NullText, ""}
       /\ Scene1Has("video")
       /\ OnlyFirstVideoFieldsChange
       /\ \A new \in shotLists' : new.video_style = caller'.videoStyle]_vars

(* ---------------------------------------------------------------------- *)
(* C14 amended: confirm(first_video) succeeds only if the supplied         *)
(* videoStyle is non-empty after trimming and Scene 1 has a complete video *)
(* asset; on success first_video_confirmed_at is set, the stored           *)
(* video_style equals the supplied videoStyle with its leading and         *)
(* trailing whitespace removed, and no other field changes.                *)
(* ---------------------------------------------------------------------- *)
C14_StoresTrimmedStyle ==
  [][FirstVideoConfirmDone =>
       /\ caller'.videoStyle \notin {NullText, ""}
       /\ Trim(caller'.videoStyle) # ""
       /\ Scene1Has("video")
       /\ OnlyFirstVideoFieldsChange
       /\ \A new \in shotLists' : new.video_style = Trim(caller'.videoStyle)]_vars

\* the caller sent " pan " and the shot list now holds "pan"
C14_Witness ==
  /\ caller.kind = "confirm" /\ caller.videoStyle = " pan "
  /\ Accepted
  /\ FirstVideoConfirmed
  /\ \A sl \in shotLists : sl.video_style = "pan"
  /\ Scene1Has("video")

(* ---------------------------------------------------------------------- *)
(* C15: confirm(all_videos) succeeds only if every scene has a complete    *)
(* video asset; on success the project's current_step is 5 and no shot     *)
(* list, scene or asset field changes.                                     *)
(* ---------------------------------------------------------------------- *)
C15_AllVideosAdvancesProject ==
  [][(last'.op = "confirm" /\ last'.phase = "all_videos" /\ last'.status = 200) =>
       /\ Lacking("video") = {}
       /\ scenes # {}
       /\ project'.current_step = 5
       /\ shotLists' = shotLists /\ scenes' = scenes /\ assets' = assets]_vars

\* all three videos confirmed: the project is at step 5
C15_Witness ==
  /\ Did("confirm", "all_videos") /\ Accepted
  /\ Cardinality(scenes) = 3
  /\ Lacking("video") = {}
  /\ project.current_step = 5

(* ---------------------------------------------------------------------- *)
(* C16: confirm(first_image) succeeds only if Scene 1 has a complete image *)
(* asset; when it succeeds while the resolver returns phase A,             *)
(* first_image_confirmed_at is set and the resolver afterwards returns     *)
(* phase B.                                                                *)
(* ---------------------------------------------------------------------- *)
C16_FirstImageConfirmLeadsToPhaseB ==
  [][(last'.op = "confirm" /\ last'.phase = "first_image" /\ last'.status = 200) =>
       /\ Scene1Has("image")
       /\ (CurrentPhase = "phase_a" =>
             /\ FirstImageConfirmed'
             /\ CurrentPhase' = "phase_b")]_vars

(* ---------------------------------------------------------------------- *)
(* C17: retryWithBackoff with maxAttempts = 3 and baseDelay = 2 s: an fn   *)
(* that throws twice and then succeeds is invoked exactly 3 times, with    *)
(* waits of 2 s then 4 s (baseDelay * 2^attempt), and its value is         *)
(* returned; an fn that always throws is invoked exactly maxAttempts       *)
(* times, with no wait after the final attempt, and the last error is      *)
(* re-raised.                                                              *)
(* ---------------------------------------------------------------------- *)
AlwaysThrows == \A k \in DOMAIN retry.fn : retry.fn[k].threw
ThrowsTwiceThenReturns ==
  /\ retry.retries = 3
  /\ retry.fn[1].threw /\ retry.fn[2].threw /\ ~retry.fn[3].threw

C17_RetrySchedule ==
  retry.pc = "done" =>
    /\ ThrowsTwiceThenReturns =>
         /\ retry.outcome.calls = 3
         /\ retry.outcome.waits = <<2000, 4000>>
         /\ ~retry.outcome.threw
         /\ retry.outcome.value = retry.fn[3]
    /\ AlwaysThrows =>
         /\ retry.outcome.calls = retry.retries
         /\ Len(retry.outcome.waits) = retry.retries - 1
         /\ \A k \in DOMAIN retry.outcome.waits :
              retry.outcome.waits[k] = 2000 * Pow2(k - 1)
         /\ retry.outcome.threw
         /\ retry.outcome.value = retry.fn[retry.retries]

\* three attempts that throw different errors: the third one is re-raised
C17_Witness ==
  /\ retry.pc = "done"
  /\ retry.retries = 3
  /\ AlwaysThrows
  /\ retry.fn[1] # retry.fn[3]
  /\ retry.outcome.waits = <<2000, 4000>>
  /\ retry.outcome.value = ThrownError("second")

(* ---------------------------------------------------------------------- *)
(* C18: after any sequence of generate, confirm and reset operations,      *)
(* repeated regenerations included, there is at most one asset row per     *)
(* (scene, type).                                                          *)
(* ---------------------------------------------------------------------- *)
RowsOf(sceneId, type) ==
  {a \in BagToSet(assets) : a.scene_id = sceneId /\ a.type = type}

C18_OneAssetPerSceneAndType ==
  \A a \in BagToSet(assets) :
    /\ Cardinality(RowsOf(a.scene_id, a.type)) = 1
    /\ assets[a] = 1

\* Scene 1's video generated again after it was confirmed: still one video row
C18_Witness ==
  /\ Did("generate", "first_video") /\ Accepted
  /\ Len(last.results) = 1 /\ last.results[1].success
  /\ FirstVideoConfirmed
  /\ \E s \in Scene1 : \E a \in RowsOf(s.id, "video") :
       /\ RowsOf(s.id, "video") = {a}
       /\ assets[a] = 1

(* ---------------------------------------------------------------------- *)
(* C19: every assembly run (concatenateVideos, concatenateWithMusic) goes  *)
(* through its stages in the order load, fetch, manifest, concatenate,     *)
(* optional mix, export: no clip is fetched before the engine is loaded,   *)
(* the manifest is written only after every clip was fetched, the          *)
(* concatenation runs only after the manifest, the mix runs only when      *)
(* music was supplied and after the concatenation, and the output is read  *)
(* only after the last processing stage.                                   *)
(* ---------------------------------------------------------------------- *)
At(ev) == {j \in DOMAIN asm.trace : asm.trace[j].ev = ev}
ClipFetches == {j \in At("fetch") : asm.trace[j].n > 0}
ManifestWrites == {j \in At("writeFile") : asm.trace[j].what = "filelist.txt"}
Earlier(S, j) == {k \in S : k < j}

\* the stage an engine or network call of the run belongs to; 0 for the rest
StageOf(e) ==
  CASE e.ev = "load" -> 1
    [] e.ev \in {"fetch", "fetch_error", "write_error"} /\ e.n > 0 -> 2
    [] e.ev = "writeFile" /\ e.what \notin {"filelist.txt", "music.mp3"} -> 2
    [] e.ev = "writeFile" /\ e.what = "filelist.txt" -> 3
    [] e.ev = "concat" -> 4
    [] e.ev = "fetch" /\ e.n = 0 -> 5
    [] e.ev = "writeFile" /\ e.what = "music.mp3" -> 5
    [] e.ev = "mix" -> 5
    [] e.ev \in {"readFile", "unlink", "unlink_error", "return"} -> 6
    [] OTHER -> 0

C19_StagesInOrder ==
  asm.pc # "none" =>
    /\ \A j \in DOMAIN asm.trace : \A k \in DOMAIN asm.trace :
         (j < k /\ StageOf(asm.trace[j]) > 0 /\ StageOf(asm.trace[k]) > 0)
           => StageOf(asm.trace[j]) <= StageOf(asm.trace[k])
    /\ \A j \in ClipFetches : Earlier(At("load"), j) # {}
    /\ \A j \in ManifestWrites : \A p \in 1..Len(asm.clips) :
         /\ \E f \in Earlier(ClipFetches, j) :
              asm.trace[f].n = p /\ asm.trace[f].what = asm.clips[p].url
         /\ \E w \in Earlier(At("writeFile"), j) : asm.trace[w].what = InputFile(p - 1)
    /\ \A j \in At("concat") : Earlier(ManifestWrites, j) # {}
    /\ \A j \in At("mix") : asm.music /\ Earlier(At("concat"), j) # {}
    /\ \A j \in At("readFile") :
         /\ Earlier(At("concat"), j) = At("concat") /\ At("concat") # {}
         /\ Earlier(At("mix"), j) = At("mix")
         /\ asm.music => At("mix") # {}
         /\ asm.trace[j].what = (IF asm.music THEN asm.trace[CHOOSE x \in At("mix") : TRUE].what
                                 ELSE asm.trace[CHOOSE c \in At("concat") : TRUE].what)

\* a run over two clips given out of order, with music, that returned its blob
C19_Witness ==
  /\ asm.pc = "done"
  /\ asm.kind = "concatenateWithMusic" /\ asm.music
  /\ asm.result.kind = "blob"
  /\ Len(asm.given) = 2 /\ asm.given # asm.clips
  /\ At("mix") # {} /\ At("readFile") # {}

(* ---------------------------------------------------------------------- *)
(* C20: if fetching or writing any clip fails, the run throws an error     *)
(* naming that clip's 1-based position in the sorted list, no later clip   *)
(* is fetched, no concatenation is run, and no output blob is returned.    *)
(* ---------------------------------------------------------------------- *)
ClipFailures == {j \in At("fetch_error") \cup At("write_error") : asm.trace[j].n > 0}

\* the 1-based positions in the ascending list at which the clip of that url stands
PositionsOf(url) ==
  {p \in DOMAIN sortedClips(asm.given) : sortedClips(asm.given)[p].url = url}

C20_FetchFailureAbortsRun ==
  asm.pc # "none" =>
    \A j \in ClipFailures :
      /\ asm.pc = "done"
      /\ asm.result.kind = "error"
      /\ \E p \in PositionsOf(asm.trace[j].what) :
           asm.result.what = "Failed to fetch video clip " \o ToString(p)
      /\ \A f \in ClipFetches : f < j
      /\ At("concat") = {} /\ At("mix") = {}
      /\ At("readFile") = {} /\ At("return") = {}

\* clips given as (order 2, order 1): the first one given fails as clip 2, after
\* clip 1 was fetched and written
C20_Witness ==
  /\ asm.pc = "done"
  /\ Len(asm.given) = 2
  /\ asm.given[1].order > asm.given[2].order
  /\ \E j \in ClipFailures : asm.trace[j].what = asm.given[1].url
  /\ asm.fileNames = <<"input0.mp4">>
  /\ asm.result = ErrorOf("Failed to fetch video clip 2")

(* ---------------------------------------------------------------------- *)
(* C21: when an assembly run ends, by returning its output or by an error  *)
(* in the fetch, concatenate or mix stage, every working slot it wrote     *)
(* (input clips, manifest, intermediate and output files, music file) has  *)
(* been removed from the engine's file system, and an error raised by a    *)
(* cleanup step never makes the run fail.                                  *)
(* ---------------------------------------------------------------------- *)
WrittenByRun ==
  {asm.trace[j].what : j \in At("writeFile") \cup At("concat") \cup At("mix")}

C21_SlotsRemovedWhenRunEnds ==
  asm.pc = "done" =>
    /\ WrittenByRun \cap asm.fs = {}
    /\ At("unlink_error") # {} => asm.result.kind = "blob"

(* ---------------------------------------------------------------------- *)
(* C22: for any input clip list, clips are fetched in ascending order of   *)
(* their order field, the i-th fetched clip is written to working slot     *)
(* input{i}.mp4, the manifest lists the slots input0 .. input{n-1} in      *)
(* exactly that sequence, and the caller's clip array is not reordered.    *)
(* ---------------------------------------------------------------------- *)
OrderOfUrl(url) == (CHOOSE k \in DOMAIN asm.given : asm.given[k].url = url)
GivenOrder(url) == asm.given[OrderOfUrl(url)].order
InputWrites == {j \in At("writeFile") : asm.trace[j].n > 0 /\ asm.trace[j].what # "filelist.txt"}

C22_ClipsInOrderIntoNumberedSlots ==
  asm.pc # "none" =>
    /\ \A j \in ClipFetches : \A k \in ClipFetches :
         j < k => GivenOrder(asm.trace[j].what) <= GivenOrder(asm.trace[k].what)
    /\ \A j \in ClipFetches :
         /\ \E k \in DOMAIN asm.given : asm.given[k].url = asm.trace[j].what
         /\ \A k \in Earlier(ClipFetches, j) : asm.trace[k].what # asm.trace[j].what
    /\ \A w \in InputWrites :
         LET i == Cardinality(Earlier(ClipFetches, w)) - 1
         IN /\ asm.trace[w - 1].ev = "fetch"
            /\ asm.trace[w].what = "input" \o ToString(i) \o ".mp4"
    /\ \A m \in ManifestWrites :
         /\ Cardinality(ClipFetches) = Len(asm.given)
         /\ Cardinality(InputWrites) = Len(asm.given)
         /\ asm.manifest =
              [i \in 1..Len(asm.given) |-> "file 'input" \o ToString(i - 1) \o ".mp4'"]
    /\ \A k \in DOMAIN asm.given : asm.given[k].url = "clip" \o ToString(k)

\* two clips given in descending order: the second one given went to input0.mp4
C22_Witness ==
  /\ asm.pc = "done" /\ asm.result.kind = "blob"
  /\ Len(asm.given) = 2
  /\ asm.given[1].order > asm.given[2].order
  /\ asm.manifest = <<"file 'input0.mp4'", "file 'input1.mp4'">>
  /\ \E j \in ClipFetches : \E k \in ClipFetches :
       /\ j < k
       /\ asm.trace[j].what = asm.given[2].url
       /\ asm.trace[k].what = asm.given[1].url

(* ---------------------------------------------------------------------- *)
(* C23: between teardowns the media engine is a singleton: initFFmpeg      *)
(* creates and loads an engine at most once, every initFFmpeg call made    *)
(* after a load has completed returns that same instance without loading   *)
(* again, and after cleanupFFmpeg() the instance is discarded so that the  *)
(* next initFFmpeg call creates and loads a new one.                       *)
(* ---------------------------------------------------------------------- *)
InitReturns == asm.pc = "init" /\ asm'.pc \notin {"init", "done"}
Teardown == asm.engine # "none" /\ asm'.engine = "none"

C23_EngineIsSingleton ==
  [][/\ (asm.engine = "loaded" /\ asm'.engine = "loaded") =>
          /\ asm'.instance = asm.instance
          /\ asm'.created = asm.created
     /\ (InitReturns /\ asm.engine = "loaded") =>
          /\ asm'.ff = asm.instance
          /\ asm'.trace = Append(asm.trace, Ev("load", "reused", asm.instance))
     /\ Teardown => asm'.instance = NoInstance
     /\ (InitReturns /\ asm.instance = NoInstance) =>
          /\ asm'.created = asm.created + 1
          /\ asm'.instance = asm'.created
          /\ asm'.ff = asm'.instance
          /\ asm'.engine = "loaded"
          /\ Ev("load", "loaded", asm'.instance) \in
               {asm'.trace[j] : j \in DOMAIN asm'.trace}]_vars

\* a run reusing the second engine, the one made after the first was discarded
C23_Witness ==
  /\ asm.pc = "done" /\ asm.result.kind = "blob"
  /\ asm.created = 2 /\ asm.instance = 2 /\ asm.engine = "loaded"
  /\ asm.ff = 2
  /\ \E j \in At("load") : asm.trace[j] = Ev("load", "reused", 2)

(* ---------------------------------------------------------------------- *)
(* C24: the assembled output's duration equals the sum of the clip         *)
(* durations (3 clips of 4 s, 5 s, 6 s give 15 s) when no music is         *)
(* supplied, and is still that sum when a background track longer than the *)
(* video is mixed in: the background track is truncated, never the video.  *)
(* ---------------------------------------------------------------------- *)
TotalOfClips == SumOf(asm.durations)

CallsFor(sceneId) == {c \in DOMAIN last.calls : last.calls[c].scene = sceneId}

C26_StructuredFailureNotRetried ==
  last.op = "generate" =>
    /\ \A c \in DOMAIN last.calls : last.calls[c].waits = <<>>
    /\ \A k \in DOMAIN last.results :
         /\ Cardinality(CallsFor(last.results[k].sceneId)) <= 1
         /\ last.results[k].success => Cardinality(CallsFor(last.results[k].sceneId)) = 1
    /\ \A c \in DOMAIN last.calls :
         \E k \in DOMAIN last.results : last.results[k].sceneId = last.calls[c].scene

\* a remaining_videos batch over two scenes, both failed, each after one call
C26_Witness ==
  /\ Did("generate", "remaining_videos") /\ Accepted
  /\ Len(last.results) = 2 /\ Len(last.calls) = 2
  /\ \A k \in DOMAIN last.results :
       /\ ~last.results[k].success
       /\ Cardinality(CallsFor(last.results[k].sceneId)) = 1

(* ---------------------------------------------------------------------- *)
(* C27: a generate request whose hard precondition fails (no fetchable     *)
(* complete Scene 1 image for remaining_images; empty videoStyle or no     *)
(* fetchable complete Scene 1 image for first_video; null or empty stored  *)
(* video_style for remaining_videos) is rejected before any backend call   *)
(* and leaves every scene, asset and shot list field unchanged.            *)
(* ---------------------------------------------------------------------- *)
Generated(phase) == last = NoResponse /\ last'.op = "generate" /\ last'.phase = phase
NothingDone ==
  /\ last'.status = 400
  /\ last'.calls = <<>> /\ last'.results = <<>>
  /\ scenes' = scenes /\ assets' = assets /\ shotLists' = shotLists

C27_FailedPreconditionRejects ==
  [][/\ (Generated("remaining_images") /\ scenes # {} /\ shotLists # {}
           /\ ~Scene1Has("image")) => NothingDone
     /\ (Generated("first_video") /\ scenes # {} /\ shotLists # {}
           /\ ~Scene1Has("image")) => NothingDone
     /\ (Generated("remaining_videos") /\ \E sl \in shotLists : ~Truthy(sl.video_style)
           /\ scenes # {}) => NothingDone
     /\ \A phase \in {"remaining_images", "first_video", "remaining_videos"} :
          (Generated(phase) /\ last'.status = 400) => NothingDone
     /\ Generated("first_video") =>
          \A c \in DOMAIN last'.calls : Truthy(last'.calls[c].prompt.style)]_vars

(* ---------------------------------------------------------------------- *)
(* C28: every entry of a generate result list agrees with the persisted    *)
(* state when the operation returns: if success is true, the (scene, type) *)
(* asset is complete and the scene status is image_complete (image phases) *)
(* or complete (video phases); if success is false, the scene status is    *)
(* failed and no asset was written for that scene by this operation. This  *)
(* holds alike for backend failures, upload failures, a missing seed image *)
(* and thrown exceptions.                                                  *)
(* ---------------------------------------------------------------------- *)
TypeOf(phase) == IF phase \in {"first_image", "remaining_images"} THEN "image" ELSE "video"
DoneStatus(phase) == IF TypeOf(phase) = "image" THEN "image_complete" ELSE "complete"
RowsOfScene(as, sceneId) == {a \in BagToSet(as) : a.scene_id = sceneId}

C28_ResultsAgreeWithState ==
  [][(last = NoResponse /\ last'.op = "generate") =>
       \A k \in DOMAIN last'.results :
         LET r == last'.results[k]
         IN /\ r.success =>
                 /\ \E a \in BagToSet(assets') :
                      /\ a.scene_id = r.sceneId /\ a.type = TypeOf(last'.phase)
                      /\ a.status = "complete"
                 /\ \A s \in scenes' : s.id = r.sceneId => s.status = DoneStatus(last'.phase)
            /\ ~r.success =>
                 /\ \A s \in scenes' : s.id = r.sceneId => s.status = "failed"
                 /\ RowsOfScene(assets', r.sceneId) = RowsOfScene(assets, r.sceneId)]_vars

(* ---------------------------------------------------------------------- *)
(* C29: within one remaining_images or remaining_videos batch at most one  *)
(* backend generation call is in flight at any time: the call for the next *)
(* target scene starts only after the previous scene's outcome (asset      *)
(* upsert or failed status) has been persisted.                            *)
(* ---------------------------------------------------------------------- *)
OutcomePersisted(sceneId) ==
  \E k \in DOMAIN caller.results :
    /\ caller.results[k].sceneId = sceneId
    /\ \A sc \in scenes : sc.id = sceneId =>
         IF caller.results[k].success
         THEN /\ sc.status = CompleteStatus(caller.phase)
              /\ HasComplete(assets, sceneId, AssetType(caller.phase))
         ELSE sc.status = "failed"

C29_OneCallInFlight ==
  caller.kind = "batch" =>
    /\ Cardinality(caller.inflight) <= 1
    /\ \A k \in DOMAIN caller.started :
         k < Len(caller.started) => 
           /\ caller.started[k] \notin caller.inflight
           /\ OutcomePersisted(caller.started[k])

\* the call for the second target is running; the first target failed and was persisted
C29_Witness ==
  /\ caller.kind = "batch" /\ caller.pc = "await"
  /\ Len(caller.started) = 2
  /\ caller.inflight = {caller.started[2]}
  /\ Len(caller.results) = 1 /\ ~caller.results[1].success
  /\ \E sc \in scenes : sc.id = caller.started[1] /\ sc.status = "failed"

(* ---------------------------------------------------------------------- *)
(* C30: generateVideo always terminates: it polls the operation at most    *)
(* MAX_POLL_ATTEMPTS (120) times, returns a timeout failure exactly when   *)
(* the operation is still not done after the last allowed poll, never      *)
(* throws, and a timeout result is not retried by retryWithBackoff.        *)
(* ---------------------------------------------------------------------- *)
HasReturned == retry.pc \in {"returned", "settled"}

\* the last allowed poll was made and answered, and the operation was still not done
StillPendingAfterLastPoll ==
  ~retry.done /\ retry.attempts = MAX_POLL_ATTEMPTS /\ ~retry.caught

PollingIsBounded ==
  /\ retry.attempts <= MAX_POLL_ATTEMPTS
  /\ retry.slept = retry.attempts * POLL_INTERVAL_MS
  /\ HasReturned =>
       /\ ~retry.result.threw
       /\ (retry.result = TimeoutFailure) <=> StillPendingAfterLastPoll
  /\ retry.pc = "settled" =>
       /\ ~retry.outcome.threw
       /\ retry.outcome.value = retry.result
       /\ retry.outcome.calls = 1
       /\ retry.outcome.waits = <<>>

C30_GenerateVideoTerminates == []PollingIsBounded /\ <>(retry.pc = "settled")

\* a run that timed out after exactly MAX_POLL_ATTEMPTS polls, handed back after one call
C30_Witness ==
  /\ retry.pc = "settled"
  /\ retry.attempts = MAX_POLL_ATTEMPTS
  /\ retry.result = TimeoutFailure
  /\ retry.result.error = "Video generation timed out after 600 seconds"
  /\ retry.outcome.calls = 1

(* ---------------------------------------------------------------------- *)
(* C31: every assembly run that returns an output blob has reported        *)
(* completion first: a progress event with stage complete and progress 100 *)
(* is emitted before the blob is returned, whether or not a music track is *)
(* supplied (concatenateWithMusic with a null music URL included).         *)
(* ---------------------------------------------------------------------- *)
CompletionReports == {j \in DOMAIN asm.trace : asm.trace[j] = Progress("complete", 100)}

C31_CompletionReportedBeforeBlob ==
  asm.pc = "done" /\ asm.result.kind = "blob" =>
    \A j \in At("return") : Earlier(CompletionReports, j) # {}

(* ---------------------------------------------------------------------- *)
(* C32: once first_video_confirmed_at is set (Phase D has started), Scene  *)
(* 1's video asset cannot be regenerated: a generate(first_video) request  *)
(* does not overwrite it until resetToFirstVideo has been performed.       *)
(* ---------------------------------------------------------------------- *)
\* the request generated, uploaded and upserted an asset for Scene 1
OverwroteScene1 ==
  \E k \in DOMAIN last'.results :
    /\ last'.results[k].success
    /\ \E s \in Scene1 : s.id = last'.results[k].sceneId

C32_FirstVideoLockedInPhaseD ==
  [][(FirstVideoConfirmed /\ Generated("first_video")) => ~OverwroteScene1]_vars

(* ---------------------------------------------------------------------- *)
(* C33: while first_image_confirmed_at is non-null the reference anchor is *)
(* locked: no generate operation overwrites Scene 1's image asset; it can  *)
(* change only after resetToFirstImage has cleared the confirmations and   *)
(* deleted the downstream images.                                          *)
(* ---------------------------------------------------------------------- *)
C33_ReferenceImageLocked ==
  [][(/\ FirstImageConfirmed
      /\ Generated("first_image") \/ Generated("remaining_images"))
       => ~OverwroteScene1]_vars

(* ---------------------------------------------------------------------- *)
(* C34: in every state in which no operation is in flight,                 *)
(* all_images_confirmed_at non-null implies every scene has a complete     *)
(* image asset; first_video_confirmed_at non-null implies Scene 1 has a    *)
(* complete video asset; and video_style is non-null exactly when          *)
(* first_video_confirmed_at is non-null.                                   *)
(* ---------------------------------------------------------------------- *)
ConfirmedImagesExist ==
  AllImagesConfirmed => \A s \in scenes : CompleteAsset(s, "image")

ConfirmedFirstVideoExists == FirstVideoConfirmed => Scene1Has("video")

StyleSetWithFirstVideo ==
  \A sl \in shotLists : (sl.video_style # NullText) <=> (sl.first_video_confirmed_at # NullTime)

PhaseRank(phase) ==
  CASE phase = "phase_a" -> 1
    [] phase = "phase_b" -> 2
    [] phase = "phase_c" -> 3
    [] phase = "phase_d" -> 4
    [] phase = "complete" -> 5

C35_PhaseNeverMovesBack ==
  [][last'.op \in {"generate", "confirm"} =>
       PhaseRank(CurrentPhase') >= PhaseRank(CurrentPhase)]_vars

\* Phase D, and a regeneration of a later video in it has just failed
C35_Witness ==
  /\ CurrentPhase = "phase_d"
  /\ Did("generate", "remaining_videos") /\ Accepted
  /\ \E k \in DOMAIN last.results : ~last.results[k].success

(* ---------------------------------------------------------------------- *)
(* C39: no operation of the pipeline lowers the project's current_step:    *)
(* after a successful confirm(all_videos) current_step is greater than or  *)
(* equal to its value before the call, also when the project had already   *)
(* advanced past step 5.                                                   *)
(* ---------------------------------------------------------------------- *)
C39_CurrentStepNeverLowered ==
  [][project'.current_step >= project.current_step]_vars

(* ---------------------------------------------------------------------- *)
(* C38: in every reachable state in which no operation is in flight, scene *)
(* status is consistent with the assets: a scene with status               *)
(* image_complete or complete has a complete image asset, and a scene with *)
(* status complete has a complete video asset.                             *)
(* ---------------------------------------------------------------------- *)
C38_StatusMatchesAssets ==
  \A s \in scenes :
    /\ s.status \in {"image_complete", "complete"} => CompleteAsset(s, "image")
    /\ s.status = "complete" => CompleteAsset(s, "video")

(* ---------------------------------------------------------------------- *)
(* C36: for every interleaving of a generateRemainingImages batch with a   *)
(* resetToFirstImage issued while that batch is still running, once both   *)
(* have finished there is no image asset for any scene with order_index >  *)
(* 1 and every such scene has status pending.                              *)
(* ---------------------------------------------------------------------- *)
BothFinished(kind) ==
  caller.kind = kind /\ caller.pc = "done" /\ caller.reset.pc = "done"

C36_ResetSurvivesRunningBatch ==
  BothFinished("batch") =>
    \A s \in LaterScenes(scenes) :
      /\ ~\E a \in BagToSet(assets) : a.scene_id = s.id /\ a.type = "image"
      /\ s.status = "pending"

(* ---------------------------------------------------------------------- *)
(* C37: for every interleaving of the individual store reads and writes of *)
(* a confirm(all_images) request with those of a concurrent                *)
(* resetToFirstImage, once both have finished all_images_confirmed_at is   *)
(* non-null only if every scene has a complete image asset.                *)
(* ---------------------------------------------------------------------- *)
C37_ConfirmationSurvivesReset ==
  BothFinished("confirm") =>
    (AllImagesConfirmed => \A s \in scenes : CompleteAsset(s, "image"))

(* ---------------------------------------------------------------------- *)
(* C40: if two initFFmpeg calls (for example from two overlapping assembly *)
(* runs) overlap before the first load has completed, only one engine      *)
(* instance is created and loaded and both callers receive that same       *)
(* instance.                                                               *)
(* ---------------------------------------------------------------------- *)
ReturnedCalls == {c \in LoadCallers : asm.calls[c].pc = "returned"}
NoCallFailed == \A c \in LoadCallers : asm.calls[c].pc # "threw"

\* with no call failing, every instance ever created is the one instance all callers got
C40_OverlappingCallsShareOneEngine ==
  (asm.pc = "overlap" /\ NoCallFailed) =>
    /\ asm.created <= 1
    /\ \A c \in ReturnedCalls :
         /\ asm.calls[c].got \in asm.loaded
         /\ \A d \in ReturnedCalls : asm.calls[d].got = asm.calls[c].got

====
